---- MODULE Spec2Model ----
(***************************************************************************)
(* The normalizing store writer of apollo-client (field-key encoder,       *)
(* writeSelectionSetToStore, writeFieldToStore, mergeWithGenerated).       *)
(*                                                                         *)
(* JavaScript strings are sequences of tokens (<<"$", "ROOT_QUERY", ".",   *)
(* "user">>), so that concatenation is \o and "the first character" is the *)
(* first token.  JavaScript values are records [t, v]; objects keep their  *)
(* properties in insertion order, as JSON.stringify and Object.keys see    *)
(* them.                                                                   *)
(***************************************************************************)
EXTENDS Integers, Sequences, FiniteSets, TLC

VARIABLES store, last, nwrites, fieldA, fieldB, env, keyA, keyB, graph, glast,
          base, optimistic, mutationStore, issued, olast, watchers,
          hook, creation

vars == <<store, last, nwrites, fieldA, fieldB, env, keyA, keyB, graph, glast,
          base, optimistic, mutationStore, issued, olast, watchers,
          hook, creation>>

\* The variables of the component with the hooks and of the store creation,
\* and their values where there is neither.
hostVars == <<hook, creation>>
NoHost ==
    /\ hook = [phase |-> "absent"]
    /\ creation = [called |-> FALSE]

(***************************************************************************)
(* JavaScript values                                                       *)
(***************************************************************************)
Undefined == [t |-> "undefined", v |-> 0]
Null == [t |-> "null", v |-> 0]
Num(n) == [t |-> "num", v |-> n]
Str(s) == [t |-> "str", v |-> s]
Bool(b) == [t |-> "bool", v |-> b]
Arr(s) == [t |-> "arr", v |-> s]
Obj(props) == [t |-> "obj", v |-> props]
Prop(k, val) == [k |-> k, v |-> val]
NP(name, val) == [k |-> <<name>>, v |-> val]

\* An object property read obj[key]: undefined when the key is absent, and
\* undefined on a value that is no plain object (an array, a string).
RECURSIVE PropsGet(_, _, _)
PropsGet(props, key, i) ==
    IF i > Len(props) THEN Undefined
    ELSE IF props[i].k = key THEN props[i].v
    ELSE PropsGet(props, key, i + 1)

Get(obj, key) == IF obj.t = "obj" THEN PropsGet(obj.v, key, 1) ELSE Undefined

Has(obj, key) == obj.t = "obj" /\ \E i \in 1..Len(obj.v) : obj.v[i].k = key

\* obj[key] = val: an existing property keeps its position.
PropsPut(props, key, val) ==
    IF \E i \in 1..Len(props) : props[i].k = key
    THEN [i \in 1..Len(props) |->
             IF props[i].k = key THEN Prop(key, val) ELSE props[i]]
    ELSE Append(props, Prop(key, val))

RECURSIVE PropsAssign(_, _, _)
PropsAssign(target, source, i) ==
    IF i > Len(source) THEN target
    ELSE PropsAssign(PropsPut(target, source[i].k, source[i].v), source, i + 1)

\* lodash assign({}, a, b) on property lists; an undefined source is skipped.
Assign3(a, b) ==
    LET pa == IF a.t = "obj" THEN a.v ELSE <<>>
        pb == IF b.t = "obj" THEN b.v ELSE <<>>
    IN  Obj(PropsAssign(PropsAssign(<<>>, pa, 1), pb, 1))

Keys(obj) == [i \in 1..Len(obj.v) |-> obj.v[i].k]

isNull(value) == value.t = "null"
isUndefined(value) == value.t = "undefined"
\* lodash isObject: objects and arrays, not null.
isObject(value) == value.t \in {"obj", "arr", "id", "json"}
isArray(value) == value.t = "arr"
\* JavaScript truthiness of an id returned by dataIdFromObject.
Truthy(value) ==
    CASE value.t \in {"undefined", "null"} -> FALSE
      [] value.t = "str" -> value.v # <<>>
      [] value.t = "num" -> value.v # 0
      [] value.t = "bool" -> value.v
      [] OTHER -> TRUE

(***************************************************************************)
(* JSON.stringify, token by token                                          *)
(***************************************************************************)
RECURSIVE Stringify(_), StringifyProps(_, _, _), StringifyItems(_, _)
Stringify(value) ==
    CASE value.t = "num" -> <<ToString(value.v)>>
      [] value.t = "str" -> <<"\"">> \o value.v \o <<"\"">>
      [] value.t = "bool" -> IF value.v THEN <<"true">> ELSE <<"false">>
      [] value.t = "null" -> <<"null">>
      [] value.t = "arr" -> <<"[">> \o StringifyItems(value.v, 1) \o <<"]">>
      [] value.t = "obj" -> <<"{">> \o StringifyProps(value.v, 1, TRUE) \o <<"}">>
      [] OTHER -> <<>>

\* Properties whose value is undefined are left out.
StringifyProps(props, i, first) ==
    IF i > Len(props) THEN <<>>
    ELSE IF props[i].v.t = "undefined" THEN StringifyProps(props, i + 1, first)
    ELSE (IF first THEN <<>> ELSE <<",">>)
         \o <<"\"">> \o props[i].k \o <<"\"", ":">> \o Stringify(props[i].v)
         \o StringifyProps(props, i + 1, FALSE)

\* An undefined array element is written null.
StringifyItems(items, i) ==
    IF i > Len(items) THEN <<>>
    ELSE (IF i = 1 THEN <<>> ELSE <<",">>)
         \o (IF items[i].t = "undefined" THEN <<"null">> ELSE Stringify(items[i]))
         \o StringifyItems(items, i + 1)

(***************************************************************************)
(* AST nodes                                                               *)
(***************************************************************************)
NoAlias == ""
\* A field without a selection set (a selection set is never empty).
NoSel == <<>>
IntValue(s) == [kind |-> "IntValue", value |-> s]
FloatValue(s) == [kind |-> "FloatValue", value |-> s]
StringValue(s) == [kind |-> "StringValue", value |-> s]
BooleanValue(b) == [kind |-> "BooleanValue", value |-> b]
EnumValue(s) == [kind |-> "EnumValue", value |-> s]
Variable(n) == [kind |-> "Variable", value |-> n]
ObjectValue(fs) == [kind |-> "ObjectValue", value |-> fs]
ListValueNode(vs) == [kind |-> "ListValue", value |-> vs]
NullValue == [kind |-> "NullValue", value |-> 0]
Arg(n, val) == [name |-> n, value |-> val]

Field(alias, name, args, sel) ==
    [kind |-> "Field", alias |-> alias, name |-> name, args |-> args, sel |-> sel,
     included |-> TRUE]
InlineFragment(sel, included) ==
    [kind |-> "InlineFragment", alias |-> NoAlias, name |-> "", args |-> <<>>,
     sel |-> sel, included |-> included]
FragmentSpread(name) ==
    [kind |-> "FragmentSpread", alias |-> NoAlias, name |-> name, args |-> <<>>,
     sel |-> NoSel, included |-> TRUE]

\* Number(value.value) of an IntValue or FloatValue literal.
NumberOf(s) ==
    CASE s = "0" -> 0
      [] s = "1" -> 1
      [] s = "1.0" -> 1
      [] s = "2" -> 2
      [] s = "5" -> 5
      [] s = "6" -> 6
      [] OTHER -> 7

NoError == "none"

RECURSIVE valueToObjectRepresentation(_, _, _, _), objectFieldsToRepresentation(_, _, _, _),
          listValuesToRepresentation(_, _, _, _, _)
\* argObj is [obj, err]; the result is argObj with argObj[name] set, or the
\* error thrown.
\* valueToObjectRepresentation taking a value of any other kind for null.
valueToObjectRepresentationLenient(argObj, name, value, variables) ==
    IF argObj.err # NoError THEN argObj
    ELSE IF value.kind \in {"IntValue", "FloatValue"}
    THEN [argObj EXCEPT !.obj = PropsPut(@, <<name>>, Num(NumberOf(value.value)))]
    ELSE IF value.kind = "BooleanValue"
    THEN [argObj EXCEPT !.obj = PropsPut(@, <<name>>, Bool(value.value))]
    ELSE IF value.kind = "StringValue"
    THEN [argObj EXCEPT !.obj = PropsPut(@, <<name>>, Str(value.value))]
    ELSE IF value.kind = "ObjectValue"
    THEN LET nested == objectFieldsToRepresentation(
                           [obj |-> <<>>, err |-> NoError], value.value, 1, variables)
         IN  IF nested.err # NoError THEN [argObj EXCEPT !.err = nested.err]
             ELSE [argObj EXCEPT !.obj = PropsPut(@, <<name>>, Obj(nested.obj))]
    ELSE IF value.kind = "Variable"
    THEN [argObj EXCEPT !.obj = PropsPut(@, <<name>>, Get(variables, <<value.value>>))]
    ELSE IF value.kind = "ListValue"
    THEN LET items == listValuesToRepresentation(
                          [obj |-> <<>>, err |-> NoError], name, value.value, 1, variables)
         IN  IF items.err # NoError THEN [argObj EXCEPT !.err = items.err]
             ELSE [argObj EXCEPT !.obj = PropsPut(@, <<name>>, Arr(items.obj))]
    ELSE IF value.kind = "EnumValue"
    THEN [argObj EXCEPT !.obj = PropsPut(@, <<name>>, Str(<<value.value>>))]
    ELSE [argObj EXCEPT !.obj = PropsPut(@, <<name>>, Null)]

valueToObjectRepresentation(argObj, name, value, variables) ==
    IF argObj.err # NoError THEN argObj
    ELSE IF value.kind \in {"IntValue", "FloatValue"}
    THEN [argObj EXCEPT !.obj = PropsPut(@, <<name>>, Num(NumberOf(value.value)))]
    ELSE IF value.kind = "BooleanValue"
    THEN [argObj EXCEPT !.obj = PropsPut(@, <<name>>, Bool(value.value))]
    ELSE IF value.kind = "StringValue"
    THEN [argObj EXCEPT !.obj = PropsPut(@, <<name>>, Str(value.value))]
    ELSE IF value.kind = "ObjectValue"
    THEN LET nested == objectFieldsToRepresentation(
                           [obj |-> <<>>, err |-> NoError], value.value, 1, variables)
         IN  IF nested.err # NoError THEN [argObj EXCEPT !.err = nested.err]
             ELSE [argObj EXCEPT !.obj = PropsPut(@, <<name>>, Obj(nested.obj))]
    ELSE IF value.kind = "Variable"
    THEN [argObj EXCEPT !.obj = PropsPut(@, <<name>>, Get(variables, <<value.value>>))]
    ELSE IF value.kind = "ListValue"
    THEN LET items == listValuesToRepresentation(
                          [obj |-> <<>>, err |-> NoError], name, value.value, 1, variables)
         IN  IF items.err # NoError THEN [argObj EXCEPT !.err = items.err]
             ELSE [argObj EXCEPT !.obj = PropsPut(@, <<name>>, Arr(items.obj))]
    ELSE IF value.kind = "EnumValue"
    THEN [argObj EXCEPT !.obj = PropsPut(@, <<name>>, Str(<<value.value>>))]
    ELSE [argObj EXCEPT !.err = "UnsupportedArgumentKind:" \o value.kind]

\* value.fields.map(obj => valueToObjectRepresentation(nestedArgObj, ...))
objectFieldsToRepresentation(acc, fields, i, variables) ==
    IF i > Len(fields) \/ acc.err # NoError THEN acc
    ELSE objectFieldsToRepresentation(
             valueToObjectRepresentation(acc, fields[i].name, fields[i].value, variables),
             fields, i + 1, variables)

\* value.values.map(listValue => ...): acc.obj is the array built so far.
listValuesToRepresentation(acc, name, values, i, variables) ==
    IF i > Len(values) \/ acc.err # NoError THEN acc
    ELSE LET one == valueToObjectRepresentation(
                        [obj |-> <<>>, err |-> NoError], name, values[i], variables)
         IN  IF one.err # NoError THEN [acc EXCEPT !.err = one.err]
             ELSE listValuesToRepresentation(
                      [acc EXCEPT !.obj = Append(@, PropsGet(one.obj, <<name>>, 1))],
                      name, values, i + 1, variables)

storeKeyNameFromFieldNameAndArgs(fieldName, args) ==
    <<fieldName, "(">> \o Stringify(args) \o <<")">>

\* storeKeyNameFromField reading the response key where it must read the name.
storeKeyNameFromResponseKey(field, variables) ==
    LET named == IF field.alias # NoAlias THEN field.alias ELSE field.name
    IN  IF Len(field.args) > 0
        THEN LET argObj == objectFieldsToRepresentation(
                               [obj |-> <<>>, err |-> NoError], field.args, 1, variables)
             IN  IF argObj.err # NoError THEN [key |-> <<>>, err |-> argObj.err]
                 ELSE [key |-> storeKeyNameFromFieldNameAndArgs(named, Obj(argObj.obj)),
                       err |-> NoError]
        ELSE [key |-> <<named>>, err |-> NoError]

\* storeKeyNameFromField leaving the arguments out of the key.
storeKeyNameWithoutArgs(field, variables) ==
    IF Len(field.args) > 0
    THEN LET argObj == objectFieldsToRepresentation(
                           [obj |-> <<>>, err |-> NoError], field.args, 1, variables)
         IN  IF argObj.err # NoError THEN [key |-> <<>>, err |-> argObj.err]
             ELSE [key |-> <<field.name>>, err |-> NoError]
    ELSE [key |-> <<field.name>>, err |-> NoError]

\* storeKeyNameFromField encoding the arguments without the variables' values.
storeKeyNameFromFieldUnsubstituted(field, variables) ==
    IF Len(field.args) > 0
    THEN LET argObj == objectFieldsToRepresentation(
                           [obj |-> <<>>, err |-> NoError], field.args, 1, Obj(<<>>))
         IN  IF argObj.err # NoError THEN [key |-> <<>>, err |-> argObj.err]
             ELSE [key |-> storeKeyNameFromFieldNameAndArgs(field.name, Obj(argObj.obj)),
                   err |-> NoError]
    ELSE [key |-> <<field.name>>, err |-> NoError]

\* [key, err]
storeKeyNameFromField(field, variables) ==
    IF Len(field.args) > 0
    THEN LET argObj == objectFieldsToRepresentation(
                           [obj |-> <<>>, err |-> NoError], field.args, 1, variables)
         IN  IF argObj.err # NoError THEN [key |-> <<>>, err |-> argObj.err]
             ELSE [key |-> storeKeyNameFromFieldNameAndArgs(field.name, Obj(argObj.obj)),
                   err |-> NoError]
    ELSE [key |-> <<field.name>>, err |-> NoError]

resultKeyNameFromField(field) ==
    IF field.alias # NoAlias THEN <<field.alias>> ELSE <<field.name>>

isField(selection) == selection.kind = "Field"
isInlineFragment(selection) == selection.kind = "InlineFragment"

(***************************************************************************)
(* The normalized cache                                                    *)
(*                                                                         *)
(* A cache is a function from data ids to entities; an entity is an        *)
(* object (ordered properties) from store field names to store values.     *)
(* A write threads st = [store, err, log]: the cache as mutated so far,    *)
(* the error thrown (the cache keeps what was written before the throw),   *)
(* and a history of the object and list slots the write stored.            *)
(***************************************************************************)
toIdValue(id, generated) == [t |-> "id", v |-> [id |-> id, generated |-> generated]]
JsonValue(json) == [t |-> "json", v |-> json]
isIdValue(idObject) == idObject.t = "id"
isJsonValue(jsonObject) == jsonObject.t = "json"

\* cache[id], undefined when absent.
Entity(cache, id) == IF id \in DOMAIN cache THEN cache[id] ELSE Undefined

CachePut(cache, id, obj) == [i \in DOMAIN cache \cup {id} |-> IF i = id THEN obj ELSE cache[i]]

CacheDelete(cache, id) == [i \in DOMAIN cache \ {id} |-> cache[i]]

\* isGeneratedId looking at the second character of the id.
isGeneratedIdAtSecond(id) == Len(id) > 1 /\ id[2] = "$"

isGeneratedId(id) == Len(id) > 0 /\ id[1] = "$"

\* a !== b: values compare by content when primitive, by identity when
\* objects, and the value about to be stored is always a fresh object.
StrictNotEqual(fresh, old) == IF isObject(fresh) THEN TRUE ELSE fresh # old

\* dataIdFromObject: null (no function given), or obj => obj.id.
NoIdGetter == "none"
ById == "id"
ByTypenameId == "typename+id"
\* The id getter of the write: obj => obj.id, none, or the one of the
\* optimistic-mutation tests, obj.__typename + obj.id when both are set.
dataIdFromObject(mode, obj) ==
    IF mode = ById THEN Get(obj, <<"id">>)
    ELSE IF mode = ByTypenameId
    THEN IF Truthy(Get(obj, <<"id">>)) /\ Truthy(Get(obj, <<"__typename">>))
         THEN Str(Get(obj, <<"__typename">>).v \o Get(obj, <<"id">>).v)
         ELSE Null
    ELSE Undefined

\* mergedCache with the two keys exchanged: the real entity is deleted and
\* the merged fields are put under the synthetic id.
mergedCacheUnderGenerated(cache, generatedKey, realKey, generated, real) ==
    CachePut(CacheDelete(cache, realKey), generatedKey, Assign3(generated, real))

\* delete cache[generatedKey]; cache[realKey] = assign({}, generated, real)
mergedCache(cache, generatedKey, realKey, generated, real) ==
    CachePut(CacheDelete(cache, generatedKey), realKey, Assign3(generated, real))

RECURSIVE mergeWithGenerated(_, _, _), mergeKeys(_, _, _, _, _, _, _)
mergeWithGenerated(st, generatedKey, realKey) ==
    LET generated == Entity(st.store, generatedKey)
        real == Entity(st.store, realKey)
    IN  IF isUndefined(generated)
        THEN [st EXCEPT !.err = "TypeError"]
        ELSE mergeKeys(st, generatedKey, realKey, generated, real, Keys(generated), 1)

\* Object.keys(generated).forEach(key => ...)
mergeKeys(st, generatedKey, realKey, generated, real, keys, i) ==
    IF i > Len(keys) \/ st.err # NoError THEN st
    ELSE IF isUndefined(real) THEN [st EXCEPT !.err = "TypeError"]
    ELSE LET value == Get(generated, keys[i])
             realValue == Get(real, keys[i])
             st1 == IF isIdValue(value) /\ isGeneratedId(value.v.id) /\ isIdValue(realValue)
                    THEN mergeWithGenerated(st, value.v.id, realValue.v.id)
                    ELSE st
         IN  IF st1.err # NoError THEN st1
             ELSE mergeKeys(
                      [st1 EXCEPT !.store =
                          mergedCache(@, generatedKey, realKey, generated, real)],
                      generatedKey, realKey, generated, real, keys, i + 1)

\* store[dataId] = newStoreObj, unless the slot already holds storeValue;
\* st1 is the state after the merge, if there was one.
storeNewObject(st1, dataId, storeFieldName, storeValue, newStoreObj) ==
    IF st1.err # NoError THEN st1
    ELSE IF isUndefined(Entity(st1.store, dataId))
            \/ StrictNotEqual(storeValue, Get(Entity(st1.store, dataId), storeFieldName))
    THEN [st1 EXCEPT !.store = CachePut(@, dataId, newStoreObj)]
    ELSE st1

\* storeFieldValue with a new object that holds the one field.
storeFieldValueAlone(st, dataId, storeFieldName, storeValue, shouldMerge, generatedKey) ==
    storeNewObject(IF shouldMerge
                   THEN mergeWithGenerated(st, generatedKey, storeValue.v.id)
                   ELSE st,
                   dataId, storeFieldName, storeValue,
                   Obj(<<Prop(storeFieldName, storeValue)>>))

\* The end of writeFieldToStore: the slot (dataId, storeFieldName) is set.
\* newStoreObj is built from the entity as it is before the merge.
storeFieldValue(st, dataId, storeFieldName, storeValue, shouldMerge, generatedKey) ==
    storeNewObject(IF shouldMerge
                   THEN mergeWithGenerated(st, generatedKey, storeValue.v.id)
                   ELSE st,
                   dataId, storeFieldName, storeValue,
                   Assign3(Entity(st.store, dataId),
                           Obj(<<Prop(storeFieldName, storeValue)>>)))

\* overwritesRealId with the test of the stored reference inverted.
overwritesGeneratedId(storeValue, escapedId) ==
    /\ isIdValue(storeValue) /\ storeValue.v.generated
    /\ isIdValue(escapedId) /\ escapedId.v.generated

\* "there is already a real id in the store and the current id we are
\* dealing with is generated"
overwritesRealId(storeValue, escapedId) ==
    /\ isIdValue(storeValue) /\ storeValue.v.generated
    /\ isIdValue(escapedId) /\ ~escapedId.v.generated

ItemEvent(dataId, key, old, ids, semantic) ==
    [kind |-> "list", dataId |-> dataId, key |-> key, old |-> old,
     new |-> Arr(ids), semantic |-> semantic, genBefore |-> Undefined,
     realBefore |-> Undefined]

\* genBefore and realBefore are the two entities handed to mergeWithGenerated
\* (undefined when the slot needed no merge).
SlotEvent(dataId, key, old, new, genBefore, realBefore) ==
    [kind |-> "object", dataId |-> dataId, key |-> key, old |-> old,
     new |-> new, semantic |-> <<>>, genBefore |-> genBefore,
     realBefore |-> realBefore]

ScalarEvent(dataId, key, old, new) ==
    [kind |-> "scalar", dataId |-> dataId, key |-> key, old |-> old,
     new |-> new, semantic |-> <<>>, genBefore |-> Undefined,
     realBefore |-> Undefined]

\* The history of a write: one event for each slot it stored.
Logged(st, event) == IF st.err # NoError THEN st ELSE [st EXCEPT !.log = Append(@, event)]

RECURSIVE writeSelectionSetToStore(_, _, _, _, _), writeSelections(_, _, _, _, _, _),
          writeFieldToStore(_, _, _, _, _), writeItems(_, _, _, _, _, _, _),
          writeFieldKeyed(_, _, _, _, _, _), writeFieldNamed(_, _, _, _, _, _),
          writeObjectField(_, _, _, _, _, _, _, _)

\* The array branch, value.forEach((item, index) => ...): acc is
\* [st, ids, semantic].
writeItems(acc, items, i, dataId, storeFieldName, field, ctx) ==
    IF i > Len(items) \/ acc.st.err # NoError THEN acc
    ELSE IF isNull(items[i])
    THEN writeItems([acc EXCEPT !.ids = Append(@, Null), !.semantic = Append(@, FALSE)],
                    items, i + 1, dataId, storeFieldName, field, ctx)
    ELSE LET semanticId == dataIdFromObject(ctx.dataIdFromObject, items[i])
             hasId == ctx.dataIdFromObject # NoIdGetter /\ Truthy(semanticId)
             itemDataId == IF hasId THEN semanticId.v
                           ELSE dataId \o <<".">> \o storeFieldName
                                \o <<".", ToString(i - 1)>>
             st1 == writeSelectionSetToStore(acc.st, itemDataId, items[i], field.sel, ctx)
         IN  writeItems([st |-> st1, ids |-> Append(acc.ids, Str(itemDataId)),
                         semantic |-> Append(acc.semantic, hasId)],
                        items, i + 1, dataId, storeFieldName, field, ctx)

\* The array branch once the elements are written: r is what writeItems
\* returns.
storeListField(r, dataId, storeFieldName) ==
    IF r.st.err # NoError THEN r.st
    ELSE Logged(storeFieldValue(r.st, dataId, storeFieldName, Arr(r.ids), FALSE, <<>>),
                ItemEvent(dataId, storeFieldName,
                          Get(Entity(r.st.store, dataId), storeFieldName),
                          r.ids, r.semantic))

\* The object branch once the sub-tree is written (st1) and the value the
\* slot holds is read (escapedId): the overwrite check, the decision to
\* merge, and the store.
storeReference(st1, dataId, storeFieldName, storeValue, escapedId) ==
    IF ~isUndefined(Entity(st1.store, dataId)) /\ overwritesRealId(storeValue, escapedId)
    THEN [st1 EXCEPT !.err = "IdentityOverwrite"]
    ELSE IF ~isUndefined(Entity(st1.store, dataId))
            /\ isIdValue(escapedId) /\ escapedId.v.generated
    THEN Logged(storeFieldValue(st1, dataId, storeFieldName, storeValue, TRUE,
                                escapedId.v.id),
                SlotEvent(dataId, storeFieldName, escapedId, storeValue,
                          Entity(st1.store, escapedId.v.id),
                          Entity(st1.store, storeValue.v.id)))
    ELSE Logged(storeFieldValue(st1, dataId, storeFieldName, storeValue, FALSE, <<>>),
                SlotEvent(dataId, storeFieldName, escapedId, storeValue,
                          Undefined, Undefined))

storeObjectField(st1, dataId, storeFieldName, storeValue) ==
    IF st1.err # NoError THEN st1
    ELSE storeReference(st1, dataId, storeFieldName, storeValue,
                        Get(Entity(st1.store, dataId), storeFieldName))

\* The object branch: the id of the object, the check of a user id for a
\* leading "$", and the write of the sub-tree.
writeObjectField(st, field, value, dataId, ctx, storeFieldName, semanticId, generatedId) ==
    IF ctx.dataIdFromObject # NoIdGetter /\ Truthy(semanticId)
    THEN IF isGeneratedId(semanticId.v)
         THEN [st EXCEPT !.err = "IdentityViolation"]
         ELSE storeObjectField(
                  writeSelectionSetToStore(st, semanticId.v, value, field.sel, ctx),
                  dataId, storeFieldName, toIdValue(semanticId.v, FALSE))
    ELSE storeObjectField(
             writeSelectionSetToStore(st, generatedId, value, field.sel, ctx),
             dataId, storeFieldName, toIdValue(generatedId, TRUE))

\* writeFieldNamed taking a null under a selection set for an object to write.
writeFieldNamedNullAsObject(st, field, value, dataId, ctx, storeFieldName) ==
    IF Len(field.sel) = 0 /\ ~isObject(value)
    THEN Logged(storeFieldValue(st, dataId, storeFieldName, value, FALSE, <<>>),
                ScalarEvent(dataId, storeFieldName,
                            Get(Entity(st.store, dataId), storeFieldName), value))
    ELSE IF Len(field.sel) = 0 /\ isObject(value)
    THEN Logged(storeFieldValue(st, dataId, storeFieldName, JsonValue(value),
                                FALSE, <<>>),
                ScalarEvent(dataId, storeFieldName,
                            Get(Entity(st.store, dataId), storeFieldName),
                            JsonValue(value)))
    ELSE IF isArray(value)
    THEN storeListField(writeItems([st |-> st, ids |-> <<>>, semantic |-> <<>>],
                                   value.v, 1, dataId, storeFieldName, field, ctx),
                        dataId, storeFieldName)
    ELSE writeObjectField(st, field, value, dataId, ctx, storeFieldName,
                          dataIdFromObject(ctx.dataIdFromObject, value),
                          IF isGeneratedId(dataId \o <<".">> \o storeFieldName)
                          THEN dataId \o <<".">> \o storeFieldName
                          ELSE <<"$">> \o dataId \o <<".">> \o storeFieldName)

\* writeFieldToStore once storeFieldName is known.
writeFieldNamed(st, field, value, dataId, ctx, storeFieldName) ==
    IF (Len(field.sel) = 0 \/ isNull(value)) /\ ~isObject(value)
    THEN Logged(storeFieldValue(st, dataId, storeFieldName, value, FALSE, <<>>),
                ScalarEvent(dataId, storeFieldName,
                            Get(Entity(st.store, dataId), storeFieldName), value))
    ELSE IF (Len(field.sel) = 0 \/ isNull(value)) /\ isObject(value)
    THEN Logged(storeFieldValue(st, dataId, storeFieldName, JsonValue(value),
                                FALSE, <<>>),
                ScalarEvent(dataId, storeFieldName,
                            Get(Entity(st.store, dataId), storeFieldName),
                            JsonValue(value)))
    ELSE IF isArray(value)
    THEN storeListField(writeItems([st |-> st, ids |-> <<>>, semantic |-> <<>>],
                                   value.v, 1, dataId, storeFieldName, field, ctx),
                        dataId, storeFieldName)
    ELSE writeObjectField(st, field, value, dataId, ctx, storeFieldName,
                          dataIdFromObject(ctx.dataIdFromObject, value),
                          IF isGeneratedId(dataId \o <<".">> \o storeFieldName)
                          THEN dataId \o <<".">> \o storeFieldName
                          ELSE <<"$">> \o dataId \o <<".">> \o storeFieldName)

\* k is what storeKeyNameFromField returned: the key, or the error thrown.
writeFieldKeyed(st, field, value, dataId, ctx, k) ==
    IF k.err # NoError THEN [st EXCEPT !.err = k.err]
    ELSE writeFieldNamed(st, field, value, dataId, ctx, k.key)

writeFieldToStore(st, field, value, dataId, ctx) ==
    writeFieldKeyed(st, field, value, dataId, ctx,
                    storeKeyNameFromField(field, ctx.variables))

\* selectionSet.selections.forEach(selection => ...)
writeSelections(st, dataId, result, selections, i, ctx) ==
    IF i > Len(selections) \/ st.err # NoError THEN st
    ELSE LET selection == selections[i]
             value == Get(result, resultKeyNameFromField(selection))
             st1 ==
               IF isField(selection)
               THEN IF ~isUndefined(value)
                    THEN writeFieldToStore(st, selection, value, dataId, ctx)
                    ELSE st
               ELSE IF isInlineFragment(selection)
               THEN IF selection.included
                    THEN writeSelectionSetToStore(st, dataId, result, selection.sel, ctx)
                    ELSE st
               ELSE IF selection.name \notin DOMAIN ctx.fragmentMap
               THEN [st EXCEPT !.err = "MissingFragment"]
               ELSE IF selection.included
               THEN writeSelectionSetToStore(st, dataId, result,
                                             ctx.fragmentMap[selection.name], ctx)
               ELSE st
         IN  writeSelections(st1, dataId, result, selections, i + 1, ctx)

writeSelectionSetToStore(st, dataId, result, selectionSet, ctx) ==
    writeSelections(st, dataId, result, selectionSet, 1, ctx)

(***************************************************************************)
(* Inputs: documents, result trees, variables                              *)
(***************************************************************************)
MaxWrites == 2

ROOT_QUERY == <<"ROOT_QUERY">>
U1 == <<"U1">>
U2 == <<"U2">>
DollarX == <<"$", "X">>

F(name) == Field(NoAlias, name, <<>>, NoSel)
OF(name, sel) == Field(NoAlias, name, <<>>, sel)

SelName == <<F("name")>>
SelIdName == <<F("id"), F("name")>>
SelIdAge == <<F("id"), F("age")>>
SelIdText == <<F("id"), F("text")>>

DocUser == <<OF("user", SelIdName)>>
DocUserAge == <<OF("user", SelIdAge)>>
DocUserFriend == <<OF("user", <<F("id"), F("name"), OF("friend", SelIdName)>>)>>
DocFriend == <<OF("friend", SelIdAge)>>
DocFriendName == <<OF("friend", SelName)>>
DocTodos == <<OF("todos", SelIdText)>>
DocFriendTodos == <<OF("friend", SelName), OF("todos", SelIdText)>>
DocTodosText == <<OF("todos", <<F("text")>>)>>
\* query todoList of the optimistic-mutation tests: todos and
\* filteredTodos: todos(completed: $c) side by side.
DocTodosArgs ==
    <<OF("todos", SelIdText),
      Field("filteredTodos", "todos", <<Arg("completed", Variable("c"))>>, SelIdText)>>
DocAliases == <<Field("a", "n", <<>>, NoSel), Field("b", "n", <<>>, NoSel), F("blob")>>
DocAliasArg ==
    <<Field("one", "n", <<Arg("x", IntValue("1"))>>, NoSel), F("n")>>
DocAliasUser == <<Field("me", "user", <<>>, SelIdName)>>
DocFragments ==
    <<FragmentSpread("UserPart"), InlineFragment(<<F("n")>>, TRUE),
      InlineFragment(<<F("blob")>>, FALSE)>>
DocNoFragment == <<F("n"), FragmentSpread("Absent")>>
DocBadArg == <<F("n"), Field(NoAlias, "m", <<Arg("x", NullValue)>>, NoSel)>>

fragmentMap == [name \in {"UserPart"} |-> DocUser]

Named(id, name) == Obj(<<NP("id", Str(id)), NP("name", Str(<<name>>))>>)
Anon(name) == Obj(<<NP("name", Str(<<name>>))>>)
Todo(id, text) == Obj(<<NP("id", Str(id)), NP("text", Str(<<text>>))>>)
AnonTodo(text) == Obj(<<NP("text", Str(<<text>>))>>)
Root(name, val) == Obj(<<NP(name, val)>>)

NoVars == Obj(<<>>)
VarsC(b) == Obj(<<NP("c", Bool(b))>>)

W(doc, result, variables, mode, dataId) ==
    [doc |-> doc, result |-> result, variables |-> variables,
     dataIdFromObject |-> mode, dataId |-> dataId]

Writes ==
    << W(DocUser, Root("user", Named(U1, "x")), NoVars, ById, ROOT_QUERY),
       W(DocUser, Root("user", Named(U1, "x")), NoVars, NoIdGetter, ROOT_QUERY),
       W(DocUser, Root("user", Named(U2, "y")), NoVars, ById, ROOT_QUERY),
       W(DocUser, Root("user", Anon("x")), NoVars, ById, ROOT_QUERY),
       W(DocUser, Root("user", Obj(<<>>)), NoVars, ById, ROOT_QUERY),
       W(DocUser, Root("user", Null), NoVars, ById, ROOT_QUERY),
       W(DocUser, Root("user", Named(DollarX, "x")), NoVars, ById, ROOT_QUERY),
       W(DocUser, Root("user", Named(<<>>, "x")), NoVars, ById, ROOT_QUERY),
       W(DocAliasUser, Root("me", Named(U1, "z")), NoVars, ById, ROOT_QUERY),
       W(DocUserAge, Root("user", Obj(<<NP("id", Str(U1)), NP("age", Num(3))>>)),
         NoVars, ById, ROOT_QUERY),
       W(DocUserAge, Root("user", Obj(<<NP("age", Num(3))>>)), NoVars, ById, ROOT_QUERY),
       W(DocUserAge, Root("user", Obj(<<NP("id", Str(U1))>>)), NoVars, NoIdGetter,
         ROOT_QUERY),
       W(DocUserFriend,
         Root("user", Obj(<<NP("name", Str(<<"x">>)), NP("friend", Anon("f"))>>)),
         NoVars, ById, ROOT_QUERY),
       W(DocUserFriend,
         Root("user", Obj(<<NP("id", Str(U1)), NP("name", Str(<<"x">>)),
                            NP("friend", Named(U2, "f"))>>)),
         NoVars, ById, ROOT_QUERY),
       W(DocUserFriend,
         Root("user", Obj(<<NP("id", Str(U1)), NP("name", Str(<<"x">>)),
                            NP("friend", Anon("g"))>>)),
         NoVars, ById, ROOT_QUERY),
       W(DocFriendName, Root("friend", Anon("f")), NoVars, ById, U1),
       W(DocFriend, Root("friend", Obj(<<NP("id", Str(U1)), NP("age", Num(4))>>)),
         NoVars, ById, U1),
       W(DocFriend, Root("friend", Obj(<<NP("id", Str(U2)), NP("age", Num(5))>>)),
         NoVars, ById, U1),
       W(DocTodos, Root("todos", Arr(<<Todo(U1, "a"), Null, AnonTodo("b")>>)),
         NoVars, ById, ROOT_QUERY),
       W(DocTodosText, Root("todos", Arr(<<Todo(U1, "a"), Null, AnonTodo("b")>>)),
         NoVars, ById, ROOT_QUERY),
       W(DocTodos, Root("todos", Arr(<<AnonTodo("c")>>)), NoVars, ById, ROOT_QUERY),
       W(DocTodos, Root("todos", Arr(<<Todo(U2, "c")>>)), NoVars, ById, ROOT_QUERY),
       W(DocTodos, Root("todos", Arr(<<Todo(DollarX, "d")>>)), NoVars, ById, ROOT_QUERY),
       W(DocTodos, Root("todos", Arr(<<Todo(U1, "a"), Todo(U1, "e")>>)), NoVars, ById,
         ROOT_QUERY),
       W(DocTodosText, Root("todos", Arr(<<Arr(<<Todo(U2, "n")>>)>>)), NoVars, ById,
         ROOT_QUERY),
       W(DocTodosArgs,
         Obj(<<NP("todos", Arr(<<Todo(U1, "a")>>)), NP("filteredTodos", Arr(<<>>))>>),
         VarsC(TRUE), ById, ROOT_QUERY),
       W(DocTodosArgs,
         Obj(<<NP("todos", Arr(<<>>)), NP("filteredTodos", Arr(<<Todo(U2, "c")>>))>>),
         VarsC(FALSE), ById, ROOT_QUERY),
       W(DocTodosArgs,
         Obj(<<NP("filteredTodos", Arr(<<AnonTodo("u")>>))>>), NoVars, ById, ROOT_QUERY),
       W(DocAliases,
         Obj(<<NP("a", Num(1)), NP("b", Num(1)),
               NP("blob", Obj(<<NP("type", Str(<<"id">>)), NP("id", Str(U1))>>))>>),
         NoVars, ById, ROOT_QUERY),
       W(DocAliases,
         Obj(<<NP("a", Num(1)), NP("b", Num(2)), NP("blob", Arr(<<Str(<<"s">>)>>))>>),
         NoVars, ById, ROOT_QUERY),
       W(DocAliasArg, Obj(<<NP("one", Num(1)), NP("n", Num(2))>>), NoVars, ById,
         ROOT_QUERY),
       W(DocFragments,
         Obj(<<NP("user", Named(U1, "x")), NP("n", Num(5)), NP("blob", Null)>>),
         NoVars, ById, ROOT_QUERY),
       W(DocNoFragment, Obj(<<NP("n", Num(6))>>), NoVars, ById, ROOT_QUERY),
       W(DocBadArg, Obj(<<NP("n", Num(6)), NP("m", Num(1))>>), NoVars, ById, ROOT_QUERY),
       W(DocFriendTodos,
         Obj(<<NP("friend", Anon("f")), NP("todos", Arr(<<Todo(U2, "c")>>))>>),
         NoVars, ById, U1)
    >>

EmptyCache == <<>>

Ctx(w) == [variables |-> w.variables, dataIdFromObject |-> w.dataIdFromObject,
           fragmentMap |-> fragmentMap]

\* writeResultToStore / writeQueryToStore on the cache `cache`.
writeResultToStore(cache, w) ==
    writeSelectionSetToStore([store |-> cache, err |-> NoError, log |-> <<>>],
                             w.dataId, w.result, w.doc, Ctx(w))

(***************************************************************************)
(* The graph writer (src/graph/write.ts).  The graph maps an id to a node  *)
(* [scalars, references]; writeToGraph changes the graph in place, so what *)
(* it has stored when it throws stays stored.  A call is modelled by       *)
(* [graph, err, data]: the graph as the call left it, the error it threw   *)
(* (NoError: it returned) and the data it returned.                        *)
(***************************************************************************)
PartialWrite == "PartialWrite"
EmptyGraph == <<>>
EmptyNode == [scalars |-> <<>>, references |-> <<>>]

NodePut(g, id, node) == [x \in DOMAIN g \cup {id} |-> IF x = id THEN node ELSE g[x]]

\* if (node) node.scalars[fieldKey] = fieldData
SetScalar(g, id, fieldKey, val) ==
    IF isNull(id) THEN g ELSE [g EXCEPT ![id.v].scalars = PropsPut(@, fieldKey, val)]

\* if (node) node.references[fieldKey] = reference
SetReference(g, id, fieldKey, ref) ==
    IF isNull(id) THEN g ELSE [g EXCEPT ![id.v].references = PropsPut(@, fieldKey, ref)]

\* getFieldKey of ./common: the name of the field, with its arguments when
\* it has any.
getFieldKey(field, variables) == storeKeyNameFromField(field, variables).key

\* getDataID: () => null by default, or obj => obj.id.
getDataID(mode, obj) == IF mode = ById THEN Get(obj, <<"id">>) ELSE Null

maybeAddTypeName(id, data) ==
    IF Get(data, <<"__typename">>).t = "str"
    THEN id \o <<":">> \o Get(data, <<"__typename">>).v
    ELSE id

\* The child id without the `id &&` guard: a null id is spliced into the path.
childIDUnguarded(id, suffix, data, dataID) ==
    IF dataID.t = "str" THEN Str(<<"(">> \o dataID.v \o <<")">>)
    ELSE Str(maybeAddTypeName((IF isNull(id) THEN <<"null">> ELSE id.v) \o suffix, data))

\* typeof dataID === 'string' ? `(${dataID})` : id && maybeAddTypeName(path, data)
\* where path is `${id}.${fieldKey}` or `${id}[${i}]`.
childID(id, suffix, data, dataID) ==
    IF dataID.t = "str" THEN Str(<<"(">> \o dataID.v \o <<")">>)
    ELSE IF ~Truthy(id) THEN id
    ELSE Str(maybeAddTypeName(id.v \o suffix, data))

\* id && `${id}...`
pathID(id, suffix) == IF ~Truthy(id) THEN id ELSE Str(id.v \o suffix)

\* After the write of a field's object (r): nextData[fieldName] is set.
fieldWritten(acc, fieldName, r) ==
    IF r.err # NoError THEN [acc EXCEPT !.graph = r.graph, !.err = r.err]
    ELSE [graph |-> r.graph, err |-> NoError,
          data |-> PropsPut(acc.data, fieldName, Obj(r.data))]

\* After writeArrayToStore (r): nextData[fieldName] and the reference are set.
arrayWritten(acc, id, fieldName, fieldKey, r) ==
    IF r.err # NoError THEN [acc EXCEPT !.graph = r.graph, !.err = r.err]
    ELSE [graph |-> SetReference(r.graph, id, fieldKey, Arr(r.reference)),
          err |-> NoError,
          data |-> PropsPut(acc.data, fieldName, Arr(r.data))]

\* fragmentWritten with a catch that rethrows nothing.
fragmentWrittenCatchAll(acc, r) ==
    IF r.err = NoError
    THEN [graph |-> r.graph, err |-> NoError, data |-> PropsAssign(acc.data, r.data, 1)]
    ELSE [acc EXCEPT !.graph = r.graph]

\* try { assign(nextData, writeToGraph(fragment).data) }
\* catch (error) { if (!error._partialWrite) throw error }
fragmentWritten(acc, r) ==
    IF r.err = NoError
    THEN [graph |-> r.graph, err |-> NoError, data |-> PropsAssign(acc.data, r.data, 1)]
    ELSE IF r.err = PartialWrite THEN [acc EXCEPT !.graph = r.graph]
    ELSE [acc EXCEPT !.graph = r.graph, !.err = r.err]

\* itemWrittenArray pushing the items of the inner array one by one.
itemWrittenArraySpliced(acc, r) ==
    IF r.err # NoError THEN [acc EXCEPT !.graph = r.graph, !.err = r.err]
    ELSE [graph |-> r.graph, err |-> NoError,
          reference |-> Append(acc.reference, Arr(r.reference)),
          data |-> acc.data \o r.data]

\* An item that is an array: itemReference and nextItemData are pushed.
itemWrittenArray(acc, r) ==
    IF r.err # NoError THEN [acc EXCEPT !.graph = r.graph, !.err = r.err]
    ELSE [graph |-> r.graph, err |-> NoError,
          reference |-> Append(acc.reference, Arr(r.reference)),
          data |-> Append(acc.data, Arr(r.data))]

\* An item that is an object, written by r under itemID: reference.push
\* (itemID) comes before the write, nextData.push after it.
itemWritten(acc, itemID, r) ==
    IF r.err # NoError THEN [acc EXCEPT !.graph = r.graph, !.err = r.err]
    ELSE [graph |-> r.graph, err |-> NoError,
          reference |-> Append(acc.reference, itemID),
          data |-> Append(acc.data, Obj(r.data))]

RECURSIVE writeToGraph(_, _, _, _, _), writeSelectionsToGraph(_, _, _, _, _, _),
          writeFieldToGraph(_, _, _, _, _, _, _, _), writeArrayToStore(_, _, _, _, _),
          writeArrayItems(_, _, _, _, _, _), writeItemToGraph(_, _, _, _, _)

writeItemToGraph(acc, item, selectionSet, ctx, itemID) ==
    itemWritten(acc, itemID, writeToGraph(acc.graph, itemID, item, selectionSet, ctx))

\* data.forEach((itemData, i) => ...): acc is [graph, err, reference, data].
writeArrayItems(acc, id, items, i, selectionSet, ctx) ==
    IF i > Len(items) \/ acc.err # NoError THEN acc
    ELSE writeArrayItems(
             IF isArray(items[i])
             THEN itemWrittenArray(acc, writeArrayToStore(
                      acc.graph, pathID(id, <<"[", ToString(i - 1), "]">>),
                      items[i].v, selectionSet, ctx))
             ELSE IF isNull(items[i])
             THEN [acc EXCEPT !.reference = Append(@, Null), !.data = Append(@, Null)]
             ELSE IF items[i].t # "obj"
             THEN [acc EXCEPT !.err = "NotComposite"]
             ELSE writeItemToGraph(acc, items[i], selectionSet, ctx,
                      childID(id, <<"[", ToString(i - 1), "]">>, items[i],
                              getDataID(ctx.getDataID, items[i]))),
             id, items, i + 1, selectionSet, ctx)

writeArrayToStore(g, id, items, selectionSet, ctx) ==
    writeArrayItems([graph |-> g, err |-> NoError, reference |-> <<>>, data |-> <<>>],
                    id, items, 1, selectionSet, ctx)

\* case 'Field', fieldData being data[fieldName].
writeFieldToGraph(acc, id, field, fieldName, fieldKey, fieldData, fieldID, ctx) ==
    IF isUndefined(fieldData) THEN [acc EXCEPT !.err = PartialWrite]
    ELSE IF Len(field.sel) = 0
    THEN [acc EXCEPT !.data = PropsPut(@, fieldName, fieldData),
                     !.graph = SetScalar(@, id, fieldKey, fieldData)]
    ELSE IF isNull(fieldData)
    THEN [acc EXCEPT !.data = PropsPut(@, fieldName, Null),
                     !.graph = SetReference(@, id, fieldKey, Null)]
    ELSE IF fieldData.t \notin {"obj", "arr"}
    THEN [acc EXCEPT !.err = "NotComposite"]
    ELSE IF isArray(fieldData)
    THEN arrayWritten(acc, id, fieldName, fieldKey,
                      writeArrayToStore(acc.graph, pathID(id, <<".">> \o fieldKey),
                                        fieldData.v, field.sel, ctx))
    ELSE fieldWritten(acc, fieldName,
                      writeToGraph(SetReference(acc.graph, id, fieldKey, fieldID),
                                   fieldID, fieldData, field.sel, ctx))

\* selectionSet.selections.forEach(selection => switch (selection.kind) ...):
\* acc is [graph, err, data], data being nextData.
writeSelectionsToGraph(acc, id, data, selections, i, ctx) ==
    IF i > Len(selections) \/ acc.err # NoError THEN acc
    ELSE writeSelectionsToGraph(
             IF selections[i].kind = "Field"
             THEN writeFieldToGraph(
                      acc, id, selections[i], resultKeyNameFromField(selections[i]),
                      getFieldKey(selections[i], ctx.variables),
                      Get(data, resultKeyNameFromField(selections[i])),
                      childID(id, <<".">> \o getFieldKey(selections[i], ctx.variables),
                              Get(data, resultKeyNameFromField(selections[i])),
                              getDataID(ctx.getDataID,
                                        Get(data, resultKeyNameFromField(selections[i])))),
                      ctx)
             ELSE IF selections[i].kind = "FragmentSpread"
             THEN IF selections[i].name \notin DOMAIN ctx.fragments
                  THEN [acc EXCEPT !.err = "MissingFragment"]
                  ELSE fragmentWritten(acc, writeToGraph(
                           acc.graph, id, data, ctx.fragments[selections[i].name], ctx))
             ELSE IF selections[i].kind = "InlineFragment"
             THEN fragmentWritten(acc, writeToGraph(acc.graph, id, data,
                                                    selections[i].sel, ctx))
             ELSE [acc EXCEPT !.err = "UnknownSelection"],
             id, data, selections, i + 1, ctx)

\* writeToGraph({graph, id, data, selectionSet, ...}): the node of a
\* non-null id is made first.
writeToGraph(g, id, data, selectionSet, ctx) ==
    writeSelectionsToGraph(
        [graph |-> IF ~isNull(id) /\ id.v \notin DOMAIN g
                   THEN NodePut(g, id.v, EmptyNode) ELSE g,
         err |-> NoError, data |-> <<>>],
        id, data, selectionSet, 1, ctx)

(***************************************************************************)
(* The state machine of the writer                                         *)
(***************************************************************************)
NoField == F("")
NoGraphWrite == [w |-> 0, err |-> NoError, data |-> <<>>, before |-> EmptyGraph]
NotEncoded == [key |-> <<>>, err |-> "pending"]

\* The variables of the client with its optimistic layers, and their values
\* where no client was constructed.
clientVars == <<base, optimistic, mutationStore, issued, olast, watchers>>
NoOp == [op |-> "none", m |-> 0, before |-> <<>>, base |-> <<>>, written |-> {},
         touched |-> <<>>, fired |-> {}]
NoClient ==
    /\ base = <<>>
    /\ optimistic = <<>>
    /\ mutationStore = <<>>
    /\ issued = <<>>
    /\ olast = NoOp
    /\ watchers = <<>>

Init ==
    /\ store = EmptyCache
    /\ last = [w |-> 0, err |-> NoError, log |-> <<>>, before |-> EmptyCache]
    /\ nwrites = 0
    /\ fieldA = NoField
    /\ fieldB = NoField
    /\ env = NoVars
    /\ keyA = NotEncoded
    /\ keyB = NotEncoded
    /\ graph = EmptyGraph
    /\ glast = NoGraphWrite
    /\ NoClient
    /\ NoHost

\* The call returned (or threw) r = [store, err, log]: the store is as the
\* call left it, also when it threw.
Returned(i, r) ==
    /\ store' = r.store
    /\ last' = [w |-> i, err |-> r.err, log |-> r.log, before |-> store]

Write(i) ==
    /\ nwrites < MaxWrites
    /\ Returned(i, writeResultToStore(store, Writes[i]))
    /\ nwrites' = nwrites + 1
    /\ UNCHANGED <<fieldA, fieldB, env, keyA, keyB, graph, glast, clientVars, hostVars>>

Next == \E i \in 1..Len(Writes) : Write(i)

Spec == Init /\ [][Next]_vars

(***************************************************************************)
(* The reader (denormalizer), after section 4.3 of the specification: the  *)
(* tree rebuilt from the cache and the response keys reported missing.     *)
(***************************************************************************)
RECURSIVE readSelectionSet(_, _, _, _, _), readSelections(_, _, _, _, _, _),
          readItems(_, _, _, _, _, _)
\* acc is [data, missing]; items are the elements of a stored list.
readItems(acc, cache, items, i, field, ctx) ==
    IF i > Len(items) THEN acc
    ELSE IF isNull(items[i])
    THEN readItems([acc EXCEPT !.data = Append(@, Null)], cache, items, i + 1, field, ctx)
    ELSE IF items[i].t = "str" /\ items[i].v \in DOMAIN cache
    THEN LET sub == readSelectionSet([data |-> <<>>, missing |-> <<>>], cache,
                                     items[i].v, field.sel, ctx)
         IN  readItems([data |-> Append(acc.data, Obj(sub.data)),
                        missing |-> acc.missing \o sub.missing],
                       cache, items, i + 1, field, ctx)
    ELSE readItems([acc EXCEPT !.missing = Append(@, resultKeyNameFromField(field))],
                   cache, items, i + 1, field, ctx)

readSelections(acc, cache, startId, selections, i, ctx) ==
    IF i > Len(selections) THEN acc
    ELSE LET selection == selections[i]
             resultKey == resultKeyNameFromField(selection)
             value == Get(Entity(cache, startId),
                          storeKeyNameFromField(selection, ctx.variables).key)
             acc1 ==
               IF isField(selection)
               THEN IF isUndefined(value)
                    THEN [acc EXCEPT !.missing = Append(@, resultKey)]
                    ELSE IF Len(selection.sel) = 0
                    THEN [acc EXCEPT !.data =
                             PropsPut(@, resultKey,
                                      IF isJsonValue(value) THEN value.v ELSE value)]
                    ELSE IF isNull(value)
                    THEN [acc EXCEPT !.data = PropsPut(@, resultKey, Null)]
                    ELSE IF isArray(value)
                    THEN LET items == readItems([data |-> <<>>, missing |-> <<>>], cache,
                                                value.v, 1, selection, ctx)
                         IN  [data |-> PropsPut(acc.data, resultKey, Arr(items.data)),
                              missing |-> acc.missing \o items.missing]
                    ELSE IF isIdValue(value) /\ value.v.id \in DOMAIN cache
                    THEN LET sub == readSelectionSet([data |-> <<>>, missing |-> <<>>],
                                                     cache, value.v.id, selection.sel, ctx)
                         IN  [data |-> PropsPut(acc.data, resultKey, Obj(sub.data)),
                              missing |-> acc.missing \o sub.missing]
                    ELSE [acc EXCEPT !.missing = Append(@, resultKey)]
               ELSE IF isInlineFragment(selection)
               THEN IF selection.included
                    THEN readSelectionSet(acc, cache, startId, selection.sel, ctx)
                    ELSE acc
               ELSE IF selection.name \in DOMAIN ctx.fragmentMap /\ selection.included
               THEN readSelectionSet(acc, cache, startId,
                                     ctx.fragmentMap[selection.name], ctx)
               ELSE acc
         IN  readSelections(acc1, cache, startId, selections, i + 1, ctx)

readSelectionSet(acc, cache, startId, selectionSet, ctx) ==
    readSelections(acc, cache, startId, selectionSet, 1, ctx)

\* read(document, variables, startId) -> [data, missing]
readFromStore(cache, w) ==
    readSelectionSet([data |-> <<>>, missing |-> <<>>], cache, w.dataId, w.doc, Ctx(w))

(***************************************************************************)
(* What a result tree says about a selection set                           *)
(***************************************************************************)
RECURSIVE Restrict(_, _, _, _, _), RestrictValue(_, _, _), Supplied(_, _, _),
          SuppliedValue(_, _, _), FlatLists(_, _, _), FlatValue(_, _, _, _)
\* The result restricted to the response keys the selection set selects.
Restrict(acc, result, selections, i, fm) ==
    IF i > Len(selections) THEN acc
    ELSE LET selection == selections[i]
             resultKey == resultKeyNameFromField(selection)
             value == Get(result, resultKey)
             acc1 ==
               IF isField(selection)
               THEN IF isUndefined(value) THEN acc
                    ELSE PropsPut(acc, resultKey, RestrictValue(value, selection.sel, fm))
               ELSE IF isInlineFragment(selection)
               THEN IF selection.included THEN Restrict(acc, result, selection.sel, 1, fm)
                    ELSE acc
               ELSE IF selection.name \in DOMAIN fm /\ selection.included
               THEN Restrict(acc, result, fm[selection.name], 1, fm)
               ELSE acc
         IN  Restrict(acc1, result, selections, i + 1, fm)

RestrictValue(value, sel, fm) ==
    IF Len(sel) = 0 THEN value
    ELSE IF value.t = "arr"
    THEN Arr([j \in 1..Len(value.v) |-> RestrictValue(value.v[j], sel, fm)])
    ELSE IF value.t = "obj" THEN Obj(Restrict(<<>>, value, sel, 1, fm))
    ELSE value

\* The result supplies a value for every field the selection set selects.
Supplied(result, selections, fm) ==
    \A i \in 1..Len(selections) :
        LET selection == selections[i]
            value == Get(result, resultKeyNameFromField(selection))
        IN  IF isField(selection)
            THEN ~isUndefined(value) /\ SuppliedValue(value, selection.sel, fm)
            ELSE IF isInlineFragment(selection)
            THEN selection.included => Supplied(result, selection.sel, fm)
            ELSE selection.name \in DOMAIN fm /\ selection.included
                    => Supplied(result, fm[selection.name], fm)

SuppliedValue(value, sel, fm) ==
    IF Len(sel) = 0 THEN TRUE
    ELSE IF value.t = "arr"
    THEN \A j \in 1..Len(value.v) : SuppliedValue(value.v[j], sel, fm)
    ELSE IF value.t = "obj" THEN Supplied(value, sel, fm)
    ELSE TRUE

\* Every list a field with a sub-selection receives holds objects and nulls
\* only (no list inside a list).
FlatLists(result, selections, fm) ==
    \A i \in 1..Len(selections) :
        LET selection == selections[i]
            value == Get(result, resultKeyNameFromField(selection))
        IN  IF isField(selection)
            THEN FlatValue(value, selection.sel, fm, FALSE)
            ELSE IF isInlineFragment(selection)
            THEN FlatLists(result, selection.sel, fm)
            ELSE selection.name \in DOMAIN fm => FlatLists(result, fm[selection.name], fm)

FlatValue(value, sel, fm, inList) ==
    IF Len(sel) = 0 THEN TRUE
    ELSE IF value.t = "arr"
    THEN ~inList /\ \A j \in 1..Len(value.v) : FlatValue(value.v[j], sel, fm, TRUE)
    ELSE IF value.t = "obj" THEN FlatLists(value, sel, fm)
    ELSE TRUE

\* No two selections of the write stored different values into one slot.
ConflictFree(log) ==
    \A i, j \in 1..Len(log) :
        log[i].dataId = log[j].dataId /\ log[i].key = log[j].key
            => log[i].new = log[j].new

NoWrite == W(<<>>, Obj(<<>>), NoVars, NoIdGetter, ROOT_QUERY)
LastWrite == IF last.w = 0 THEN NoWrite ELSE Writes[last.w]
Wrote == last.w # 0
Succeeded == Wrote /\ last.err = NoError

RoundTripCase ==
    /\ Succeeded
    /\ LastWrite.dataId = ROOT_QUERY
    /\ Supplied(LastWrite.result, LastWrite.doc, fragmentMap)

RoundTrips ==
    readFromStore(store, LastWrite)
        = [data |-> Restrict(<<>>, LastWrite.result, LastWrite.doc, 1, fragmentMap),
           missing |-> <<>>]

\* C1 as stated: after a successful write of (D, R, V) from ROOT_QUERY, with
\* R supplying every field D selects, reading D with V returns R restricted
\* to D's response keys and nothing missing.
C1_RoundTrip == RoundTripCase => RoundTrips

\* C1 for the writes in which no two selections store different values into
\* one slot (a result that gives one entity two values cannot be kept by any
\* normalised store): the round trip of such a write.
C1_RoundTripDistinctSlots == (RoundTripCase /\ ConflictFree(last.log)) => RoundTrips

\* The part of C1 the writer keeps: the round trip holds when, in addition,
\* no list of objects holds a list.
C1_RoundTripConflictFree ==
    (RoundTripCase /\ ConflictFree(last.log)
       /\ FlatLists(LastWrite.result, LastWrite.doc, fragmentMap)) => RoundTrips

\* A state C1 is about: a second write, of a list of objects with and
\* without ids into a cache that already holds entities, read back whole.
C1_Witness ==
    /\ RoundTripCase
    /\ ConflictFree(last.log)
    /\ FlatLists(LastWrite.result, LastWrite.doc, fragmentMap)
    /\ last.before # EmptyCache
    /\ \E i \in 1..Len(last.log) :
          /\ last.log[i].kind = "list"
          /\ last.log[i].semantic = <<TRUE, FALSE, FALSE>>
    /\ RoundTrips

(***************************************************************************)
(* Comparing caches field by field (the order of properties aside)         *)
(***************************************************************************)
KeySet(obj) == IF obj.t = "obj" THEN {obj.v[i].k : i \in 1..Len(obj.v)} ELSE {}

SameEntity(a, b) ==
    /\ KeySet(a) = KeySet(b)
    /\ \A i \in 1..Len(a.v) : Get(b, a.v[i].k) = a.v[i].v

SameCache(a, b) ==
    /\ DOMAIN a = DOMAIN b
    /\ \A id \in DOMAIN a : SameEntity(a[id], b[id])

BeginsWithDollar(id) == Len(id) > 0 /\ Head(id) = "$"

\* C2 as stated: a write that succeeded succeeds again when applied a second
\* time, and leaves every entity and every field as the first application
\* left them.
C2_WriteIdempotent ==
    Succeeded =>
        LET again == writeResultToStore(store, LastWrite)
        IN  again.err = NoError /\ SameCache(again.store, store)

\* The events of the last write that reconcile: slot (P, k) held
\* Reference(G, generated) and now receives an object with a user id R.
Reconciles(e) ==
    /\ e.kind = "object"
    /\ isIdValue(e.old) /\ e.old.v.generated
    /\ ~e.new.v.generated

\* C3 as stated: after a reconciliation at (P, k), G is gone, the slot holds
\* Reference(R, false) and R has every field G had, its own values winning;
\* for every P and R, R = P included.
C3_Absorption ==
    Succeeded =>
        \A i \in 1..Len(last.log) :
            LET e == last.log[i]
                G == e.old.v.id
                R == e.new.v.id
            IN  Reconciles(e) =>
                  /\ G \notin DOMAIN store
                  /\ Get(Entity(store, e.dataId), e.key) = toIdValue(R, FALSE)
                  /\ \A key \in KeySet(e.genBefore) :
                        /\ Has(Entity(store, R), key)
                        /\ Has(e.realBefore, key)
                              => Get(Entity(store, R), key) = Get(e.realBefore, key)

\* The same with the case R = P left out.
C3_AbsorptionOtherParent ==
    Succeeded =>
        \A i \in 1..Len(last.log) :
            LET e == last.log[i]
                G == e.old.v.id
                R == e.new.v.id
            IN  (Reconciles(e) /\ R # e.dataId) =>
                  /\ G \notin DOMAIN store
                  /\ Get(Entity(store, e.dataId), e.key) = toIdValue(R, FALSE)
                  /\ \A key \in KeySet(e.genBefore) :
                        /\ Has(Entity(store, R), key)
                        /\ Has(e.realBefore, key)
                              => Get(Entity(store, R), key) = Get(e.realBefore, key)

\* The id the writer itself gives element `index` of the list at (dataId, key).
ItemId(dataId, key, index) == dataId \o <<".">> \o key \o <<".", ToString(index - 1)>>

SurvivorFreeSlot(e) ==
    Reconciles(e) => e.old.v.id \notin DOMAIN store

SurvivorFreeNested(e) ==
    Reconciles(e) =>
        \A key \in KeySet(e.genBefore) :
            LET gv == Get(e.genBefore, key)
                rv == Get(Entity(store, e.new.v.id), key)
            IN  (isIdValue(gv) /\ gv.v.generated /\ isIdValue(rv) /\ ~rv.v.generated)
                    => gv.v.id \notin DOMAIN store

SurvivorFreeList(e) ==
    (e.kind = "list" /\ isArray(e.old)) =>
        \A j \in 1..Len(e.new.v) :
            (/\ e.semantic[j]
             /\ j <= Len(e.old.v)
             /\ e.old.v[j] = Str(ItemId(e.dataId, e.key, j)))
                => ItemId(e.dataId, e.key, j) \notin DOMAIN store

\* C4 as stated: once a write has stored a user-id object at an object slot,
\* at a nested reference field of a reconciled entity or at a list position
\* that held a synthetic-id object, the synthetic entity is not in the store.
C4_NoSyntheticSurvivor ==
    Succeeded =>
        \A i \in 1..Len(last.log) :
            /\ SurvivorFreeSlot(last.log[i])
            /\ SurvivorFreeNested(last.log[i])
            /\ SurvivorFreeList(last.log[i])

\* C4 amended: the same for object slots and for nested reference fields of
\* a reconciled entity; list positions are left out.
C4_NoSyntheticSurvivorAtSlots ==
    Succeeded =>
        \A i \in 1..Len(last.log) :
            /\ SurvivorFreeSlot(last.log[i])
            /\ SurvivorFreeNested(last.log[i])

\* A reconciliation that reached a nested reference field: the synthetic
\* entity and the synthetic child it referred to existed before the write.
C4_Witness ==
    /\ Succeeded
    /\ \E i \in 1..Len(last.log) :
          LET e == last.log[i]
          IN  /\ Reconciles(e)
              /\ e.old.v.id \in DOMAIN last.before
              /\ \E key \in KeySet(e.genBefore) :
                    LET gv == Get(e.genBefore, key)
                        rv == Get(Entity(store, e.new.v.id), key)
                    IN  /\ isIdValue(gv) /\ gv.v.generated
                        /\ gv.v.id \in DOMAIN last.before
                        /\ isIdValue(rv) /\ ~rv.v.generated

HasUserId(value, mode) == mode = ById /\ Truthy(dataIdFromObject(mode, value))

FieldKey(field) == storeKeyNameFromField(field, LastWrite.variables).key

\* The first selection of the last write supplies, at slot (P, k), an object
\* without a user id while the slot held Reference(R, generated = false).
OverwriteCase ==
    /\ Wrote
    /\ LET f == LastWrite.doc[1]
           value == Get(LastWrite.result, resultKeyNameFromField(f))
           held == Get(Entity(last.before, LastWrite.dataId), FieldKey(f))
       IN  /\ isField(f) /\ Len(f.sel) > 0
           /\ value.t = "obj"
           /\ ~HasUserId(value, LastWrite.dataIdFromObject)
           /\ isIdValue(held) /\ ~held.v.generated

\* C5: a write that supplies an object without a user id at a slot holding
\* Reference(R, generated = false) fails with IdentityOverwrite, and the slot
\* still holds Reference(R, generated = false).
C5_IdentityOverwrite ==
    OverwriteCase =>
        LET k == FieldKey(LastWrite.doc[1])
        IN  /\ last.err = "IdentityOverwrite"
            /\ Get(Entity(store, LastWrite.dataId), k)
                  = Get(Entity(last.before, LastWrite.dataId), k)
            /\ ~Get(Entity(store, LastWrite.dataId), k).v.generated

C5_Witness == OverwriteCase /\ last.err = "IdentityOverwrite"

RECURSIVE DollarIds(_, _, _, _), DollarIdsOfValue(_, _, _, _)
\* The ids beginning with "$" that dataIdFromObject returns for the objects
\* of a result tree that the selection set reaches.
DollarIds(result, selections, fm, mode) ==
    UNION { LET selection == selections[i]
                value == Get(result, resultKeyNameFromField(selection))
            IN  IF isField(selection)
                THEN IF Len(selection.sel) = 0 THEN {}
                     ELSE DollarIdsOfValue(value, selection.sel, fm, mode)
                ELSE IF isInlineFragment(selection)
                THEN IF selection.included
                     THEN DollarIds(result, selection.sel, fm, mode)
                     ELSE {}
                ELSE IF selection.name \in DOMAIN fm /\ selection.included
                THEN DollarIds(result, fm[selection.name], fm, mode)
                ELSE {}
          : i \in 1..Len(selections) }

DollarIdsOfValue(value, sel, fm, mode) ==
    IF value.t = "arr"
    THEN UNION { DollarIdsOfValue(value.v[j], sel, fm, mode) : j \in 1..Len(value.v) }
    ELSE IF value.t = "obj"
    THEN (IF HasUserId(value, mode) /\ BeginsWithDollar(dataIdFromObject(mode, value).v)
          THEN {dataIdFromObject(mode, value).v} ELSE {})
         \cup DollarIds(value, sel, fm, mode)
    ELSE {}

LastDollarIds ==
    DollarIds(LastWrite.result, LastWrite.doc, fragmentMap, LastWrite.dataIdFromObject)

\* Some slot of the cache refers to id, as a reference or as a list element.
Referenced(cache, id) ==
    \E p \in DOMAIN cache :
        \E i \in 1..Len(cache[p].v) :
            LET val == cache[p].v[i].v
            IN  \/ isIdValue(val) /\ val.v.id = id
                \/ isArray(val) /\ \E j \in 1..Len(val.v) : val.v[j] = Str(id)

\* The last write stored no entity under id and no reference to id.
NothingStoredFor(id) ==
    /\ id \in DOMAIN store => id \in DOMAIN last.before /\ store[id] = last.before[id]
    /\ Referenced(store, id) => Referenced(last.before, id)

\* C6 as stated: when dataIdFromObject returns an id beginning with "$" for
\* an object of the result, as the value of a field or as a list element,
\* the write fails, no entity is stored under the id and nothing refers to it.
C6_IdentityViolation ==
    Wrote =>
        \A id \in LastDollarIds :
            /\ last.err # NoError
            /\ NothingStoredFor(id)

\* The same for objects that are the value of an object field only.
C6_IdentityViolationAtObjectField ==
    (Wrote /\ \A i \in 1..Len(LastWrite.doc) :
                 Get(LastWrite.result, resultKeyNameFromField(LastWrite.doc[i])).t # "arr")
      => \A id \in LastDollarIds :
            /\ last.err = "IdentityViolation"
            /\ NothingStoredFor(id)

\* The top-level fields of the last write that are the last to store into
\* their slot.
TopFields == {i \in 1..Len(LastWrite.doc) : isField(LastWrite.doc[i])}

LastIntoSlot(i) ==
    \A j \in TopFields : j > i => FieldKey(LastWrite.doc[j]) # FieldKey(LastWrite.doc[i])

StoredForm(value) == IF isObject(value) THEN JsonValue(value) ELSE value

\* The slot (start id, key of the name and arguments alone) holds what the
\* result gives under the response key of the field.
AliasedValueStored(f) ==
    LET value == Get(LastWrite.result, resultKeyNameFromField(f))
        key == FieldKey([f EXCEPT !.alias = NoAlias])
        slot == Get(Entity(store, LastWrite.dataId), key)
    IN  IF Len(f.sel) = 0 \/ isNull(value) THEN slot = StoredForm(value)
        ELSE value.t = "obj" =>
               /\ isIdValue(slot)
               /\ \A n \in 1..Len(f.sel) :
                     (Len(f.sel[n].sel) = 0 /\ Has(value, <<f.sel[n].name>>))
                        => Get(Entity(store, slot.v.id), <<f.sel[n].name>>)
                              = Get(value, <<f.sel[n].name>>)

AliasCase(i) ==
    /\ Succeeded
    /\ i \in TopFields
    /\ LastWrite.doc[i].alias # NoAlias
    /\ ~isUndefined(Get(LastWrite.result, <<LastWrite.doc[i].alias>>))

\* C8: the alias is no part of the field key: fields of one name and the same
\* arguments have one key whatever their aliases, and the value found in the
\* result under the alias is stored in the slot that key names.
C8_AliasNotInKey ==
    \A i \in 1..Len(LastWrite.doc) :
        AliasCase(i) =>
            LET f == LastWrite.doc[i]
            IN  /\ FieldKey(f) = FieldKey([f EXCEPT !.alias = NoAlias])
                /\ FieldKey(f) = FieldKey([f EXCEPT !.alias = "other"])
                /\ \A j \in TopFields :
                      (LastWrite.doc[j].name = f.name /\ LastWrite.doc[j].args = f.args)
                          => FieldKey(LastWrite.doc[j]) = FieldKey(f)
                /\ LastIntoSlot(i) => AliasedValueStored(f)

\* An aliased field with arguments and an aliased object field have both
\* been written under their aliases.
C8_Witness ==
    /\ \E i \in 1..Len(LastWrite.doc) :
          AliasCase(i) /\ LastIntoSlot(i) /\ Len(LastWrite.doc[i].args) > 0
             /\ Len(FieldKey(LastWrite.doc[i])) > 1
    /\ \E id \in DOMAIN last.before :
          \E i \in 1..Len(last.before[id].v) : isIdValue(last.before[id].v[i].v)

\* C10: in every cache reached from the empty cache, a reference is marked
\* generated exactly when its id begins with "$".
C10_GeneratedIffDollar ==
    \A id \in DOMAIN store :
        \A i \in 1..Len(store[id].v) :
            LET val == store[id].v[i].v
            IN  isIdValue(val) => (val.v.generated <=> BeginsWithDollar(val.v.id))

\* After a reconciliation a user-id entity holds a generated reference that
\* was copied from the synthetic entity.
C10_Witness ==
    /\ Succeeded
    /\ \E i \in 1..Len(last.log) :
          LET e == last.log[i]
          IN  /\ Reconciles(e)
              /\ \E key \in KeySet(e.genBefore) :
                    /\ isIdValue(Get(e.genBefore, key))
                    /\ ~Has(e.realBefore, key)
                    /\ Get(Entity(store, e.new.v.id), key) = Get(e.genBefore, key)
                    /\ Get(e.genBefore, key).v.generated

(***************************************************************************)
(* Argument objects compared by content                                    *)
(***************************************************************************)
DefinedKeys(obj) == {obj.v[i].k : i \in {n \in 1..Len(obj.v) : ~isUndefined(obj.v[n].v)}}

\* Two values with the same names and values, whatever the order in which an
\* object lists them.  An argument that was given no value counts as absent
\* (as null inside a list).
RECURSIVE SameValue(_, _)
SameValue(a, b) ==
    LET na == IF isUndefined(a) THEN Null ELSE a
        nb == IF isUndefined(b) THEN Null ELSE b
    IN  IF na.t # nb.t THEN FALSE
        ELSE IF na.t = "obj"
        THEN /\ DefinedKeys(na) = DefinedKeys(nb)
             /\ \A key \in DefinedKeys(na) : SameValue(Get(na, key), Get(nb, key))
        ELSE IF na.t = "arr"
        THEN /\ Len(na.v) = Len(nb.v)
             /\ \A j \in 1..Len(na.v) : SameValue(na.v[j], nb.v[j])
        ELSE na = nb

NoArgs == [t |-> "noargs", v |-> 0]

\* The arguments of a field after variable substitution.
ArgsOf(field, variables) ==
    IF Len(field.args) = 0 THEN NoArgs
    ELSE Obj(objectFieldsToRepresentation([obj |-> <<>>, err |-> NoError],
                                          field.args, 1, variables).obj)

SameArgs(f, g, variables) ==
    IF Len(f.args) = 0 \/ Len(g.args) = 0 THEN Len(f.args) = Len(g.args)
    ELSE SameValue(ArgsOf(f, variables), ArgsOf(g, variables))

Written(i) ==
    /\ i \in TopFields
    /\ ~isUndefined(Get(LastWrite.result, resultKeyNameFromField(LastWrite.doc[i])))

\* The slots of the start entity that hold a field of the same name as a
\* field the last write wrote, under another key than any it wrote.
SiblingSlots ==
    {k \in KeySet(Entity(last.before, LastWrite.dataId)) :
        /\ \E i \in TopFields : Written(i) /\ LastWrite.doc[i].name = Head(k)
        /\ \A i \in TopFields : Written(i) => FieldKey(LastWrite.doc[i]) # k}

\* C9: fields of one name under one parent whose arguments differ after
\* variable substitution (or of which only one has arguments) have different
\* keys, and writing one leaves the value stored for the other as it was.
C9_ArgumentKeyedCoexist ==
    Succeeded =>
        /\ \A i, j \in TopFields :
              LET f == LastWrite.doc[i]
                  g == LastWrite.doc[j]
              IN  (f.name = g.name /\ ~SameArgs(f, g, LastWrite.variables))
                     => FieldKey(f) # FieldKey(g)
        /\ \A k \in SiblingSlots :
              Get(Entity(store, LastWrite.dataId), k)
                 = Get(Entity(last.before, LastWrite.dataId), k)

\* todos(completed: ...) has been written into an entity that already held
\* todos, with another value, and the document named both.
C9_Witness ==
    /\ Succeeded
    /\ \E i, j \in TopFields :
          /\ LastWrite.doc[i].name = LastWrite.doc[j].name
          /\ ~SameArgs(LastWrite.doc[i], LastWrite.doc[j], LastWrite.variables)
    /\ \E k \in SiblingSlots :
          \E i \in TopFields :
              /\ Written(i)
              /\ LastWrite.doc[i].name = Head(k)
              /\ Get(Entity(store, LastWrite.dataId), FieldKey(LastWrite.doc[i]))
                    # Get(Entity(store, LastWrite.dataId), k)

(***************************************************************************)
(* The field-key encoder on its own: two fields and a variable environment *)
(***************************************************************************)
FA(name, args) == Field(NoAlias, name, args, NoSel)

FieldNodes ==
    << FA("todos", <<>>),
       FA("todos", <<Arg("completed", BooleanValue(TRUE))>>),
       FA("todos", <<Arg("completed", Variable("c"))>>),
       Field("filteredTodos", "todos", <<Arg("completed", BooleanValue(TRUE))>>, NoSel),
       FA("f", <<Arg("a", IntValue("1")), Arg("b", IntValue("2"))>>),
       FA("f", <<Arg("b", IntValue("2")), Arg("a", IntValue("1"))>>),
       FA("f", <<Arg("a", FloatValue("1.0")), Arg("b", IntValue("2"))>>),
       FA("f", <<Arg("o", ObjectValue(<<Arg("p", IntValue("1")),
                                        Arg("q", StringValue(<<"s">>))>>))>>),
       FA("f", <<Arg("o", ObjectValue(<<Arg("q", StringValue(<<"s">>)),
                                        Arg("p", IntValue("1"))>>))>>),
       FA("f", <<Arg("o", Variable("x"))>>),
       FA("f", <<Arg("o", Variable("y"))>>),
       FA("f", <<Arg("l", ListValueNode(<<IntValue("1"), Variable("n")>>))>>),
       FA("f", <<Arg("l", ListValueNode(<<IntValue("1"), IntValue("2")>>))>>),
       FA("f", <<Arg("e", EnumValue("DONE"))>>),
       FA("f", <<Arg("o", ObjectValue(<<Arg("p", Variable("n")),
                                        Arg("q", StringValue(<<"s">>))>>))>>),
       FA("f", <<Arg("o", ObjectValue(<<Arg("p", NullValue)>>))>>)
    >>

PQ == Obj(<<NP("p", Num(1)), NP("q", Str(<<"s">>))>>)
QP == Obj(<<NP("q", Str(<<"s">>)), NP("p", Num(1))>>)

Envs ==
    << Obj(<<NP("c", Bool(TRUE)), NP("x", PQ), NP("y", QP), NP("n", Num(2))>>),
       Obj(<<NP("c", Bool(FALSE)), NP("x", PQ), NP("y", PQ), NP("n", Num(1))>>),
       NoVars >>

KeyInit ==
    /\ store = EmptyCache
    /\ last = [w |-> 0, err |-> NoError, log |-> <<>>, before |-> EmptyCache]
    /\ nwrites = 0
    /\ \E i \in 1..Len(FieldNodes) : fieldA = FieldNodes[i]
    /\ \E i \in 1..Len(FieldNodes) : fieldB = FieldNodes[i]
    /\ \E i \in 1..Len(Envs) : env = Envs[i]
    /\ keyA = NotEncoded
    /\ keyB = NotEncoded
    /\ graph = EmptyGraph
    /\ glast = NoGraphWrite
    /\ NoClient
    /\ NoHost

Encode ==
    /\ keyA = NotEncoded
    /\ keyA' = storeKeyNameFromField(fieldA, env)
    /\ keyB' = storeKeyNameFromField(fieldB, env)
    /\ UNCHANGED <<store, last, nwrites, fieldA, fieldB, env, graph, glast, clientVars, hostVars>>

KeyNext == Encode

KeySpec == KeyInit /\ [][KeyNext]_vars

Encoded == keyA.err = NoError /\ keyB.err = NoError

\* C7 as stated: two fields of one name whose argument trees hold the same
\* names and values, listed in any order (nested objects and object-valued
\* variables included), have the same field key.
C7_KeyDeterminism ==
    (Encoded /\ fieldA.name = fieldB.name /\ SameArgs(fieldA, fieldB, env))
        => keyA.key = keyB.key

\* The same for argument trees that list their names in the same order.
C7_KeyDeterminismSameOrder ==
    (Encoded /\ fieldA.name = fieldB.name
       /\ ArgsOf(fieldA, env) = ArgsOf(fieldB, env))
        => keyA.key = keyB.key

(***************************************************************************)
(* The ids the writer makes up                                             *)
(***************************************************************************)
OneDollar(id) == BeginsWithDollar(id) /\ (Len(id) > 1 => id[2] # "$")

\* The id the specification gives an object without a user id at
\* (parentId, fieldKey), or at position `index` of the list there when
\* index > 0.
SyntheticId(parentId, fieldKey, index) ==
    LET path == IF index > 0 THEN ItemId(parentId, fieldKey, index)
                ELSE parentId \o <<".">> \o fieldKey
    IN  IF BeginsWithDollar(parentId) THEN path ELSE <<"$">> \o path

SyntheticIdAtObjectField(e) ==
    (e.kind = "object" /\ e.new.v.generated) =>
        /\ e.new.v.id = SyntheticId(e.dataId, e.key, 0)
        /\ OneDollar(e.new.v.id)

SyntheticIdAtListElement(e) ==
    e.kind = "list" =>
        \A j \in 1..Len(e.new.v) :
            (~isNull(e.new.v[j]) /\ ~e.semantic[j]) =>
                /\ e.new.v[j].v = SyntheticId(e.dataId, e.key, j)
                /\ OneDollar(e.new.v[j].v)

\* C11 as stated: every id the writer generates for an object without a
\* user id, as the child of an object field or as a list element, begins
\* with exactly one "$" and is $<parent>.<key>[.<index>], the "$" left out
\* when the parent id already begins with one.
C11_SyntheticIdForm ==
    \A i \in 1..Len(last.log) :
        SyntheticIdAtObjectField(last.log[i]) /\ SyntheticIdAtListElement(last.log[i])

\* The same for the children of object fields only.
C11_SyntheticIdFormAtObjectField ==
    \A i \in 1..Len(last.log) : SyntheticIdAtObjectField(last.log[i])

(***************************************************************************)
(* What a write removes                                                    *)
(***************************************************************************)
\* The ids that were keys of the store before the last write and are not
\* keys of it now.
Deleted == DOMAIN last.before \ DOMAIN store

\* Some entity of the cache holds Reference(id, generated = true).
HeldGenerated(cache, id) ==
    \E p \in DOMAIN cache :
        \E i \in 1..Len(cache[p].v) :
            LET val == cache[p].v[i].v
            IN  isIdValue(val) /\ val.v.id = id /\ val.v.generated

\* C12 as stated: a write, failed or not, removes no entity whose id is a
\* root id or a user id (so the non-synthetic ids of the store only grow);
\* what it removes is a synthetic-id entity that a slot referred to as
\* generated, the one being reconciled.
C12_NoGarbageCollection ==
    Wrote => \A id \in Deleted : BeginsWithDollar(id) /\ HeldGenerated(last.before, id)

\* A write reconciled a synthetic entity into a user-id entity that was in
\* the store already: the synthetic one is removed, the other kept.
C12_Witness ==
    /\ Succeeded
    /\ \E i \in 1..Len(last.log) :
          LET e == last.log[i]
          IN  /\ Reconciles(e)
              /\ e.old.v.id \in Deleted
              /\ e.new.v.id \in DOMAIN last.before
              /\ e.new.v.id \in DOMAIN store
              /\ e.new.v.id # e.dataId

(***************************************************************************)
(* The state machine of the graph writer: calls of writeToGraph on one     *)
(* graph                                                                   *)
(***************************************************************************)
ROOT == Str(<<"ROOT">>)
IF_(sel) == InlineFragment(sel, TRUE)
\* A selection whose kind is none of Field, FragmentSpread, InlineFragment.
OddSelection == [kind |-> "Directive", name |-> "odd"]

graphFragments ==
    [name \in {"UserPart", "Odd", "Deep"} |->
        CASE name = "UserPart" -> <<OF("user", SelIdName)>>
          [] name = "Odd" -> <<F("a"), OddSelection>>
          [] name = "Deep" -> <<F("a"), IF_(<<FragmentSpread("Absent")>>)>>]

Typed(type, id, name) ==
    Obj(<<NP("__typename", Str(<<type>>)), NP("id", Str(id)), NP("name", Str(<<name>>))>>)

GW(doc, result, mode, id) ==
    [doc |-> doc, result |-> result, variables |-> NoVars, getDataID |-> mode, id |-> id]

GraphWrites ==
    << GW(DocUser, Root("user", Named(U1, "x")), ById, ROOT),
       GW(DocUser, Root("user", Anon("x")), ById, ROOT),
       GW(<<F("n"), IF_(<<F("a"), F("b")>>)>>,
          Obj(<<NP("n", Num(1)), NP("a", Num(2))>>), ById, ROOT),
       GW(<<F("n"), IF_(<<F("a"), F("b")>>)>>,
          Obj(<<NP("n", Num(1)), NP("a", Num(3)), NP("b", Num(4))>>), ById, ROOT),
       GW(<<FragmentSpread("UserPart"), F("n")>>,
          Obj(<<NP("n", Num(5)), NP("user", Obj(<<NP("id", Str(U1))>>))>>), ById, ROOT),
       GW(<<FragmentSpread("UserPart"), F("n")>>,
          Obj(<<NP("n", Num(5)), NP("user", Named(U2, "y"))>>), NoIdGetter, ROOT),
       GW(<<F("n"), IF_(<<IF_(<<FragmentSpread("Absent")>>)>>)>>,
          Obj(<<NP("n", Num(1))>>), ById, ROOT),
       GW(<<F("n"), IF_(<<FragmentSpread("Odd")>>)>>,
          Obj(<<NP("n", Num(1)), NP("a", Num(2))>>), ById, ROOT),
       GW(<<F("n"), FragmentSpread("Deep")>>,
          Obj(<<NP("n", Num(1)), NP("a", Num(2))>>), ById, ROOT),
       GW(<<F("n"), IF_(<<OF("user", SelName)>>)>>,
          Obj(<<NP("n", Num(1)), NP("user", Num(5))>>), ById, ROOT),
       GW(<<F("n"), F("m")>>, Obj(<<NP("n", Num(7))>>), ById, ROOT),
       GW(<<F("n"), IF_(<<F("b"), FragmentSpread("Absent")>>)>>,
          Obj(<<NP("n", Num(1))>>), ById, ROOT),
       GW(<<F("n"), IF_(<<FragmentSpread("Absent"), F("b")>>)>>,
          Obj(<<NP("n", Num(1))>>), ById, ROOT),
       GW(DocTodos,
          Root("todos", Arr(<<Todo(U1, "a"), Null, Arr(<<Todo(U2, "c")>>)>>)),
          NoIdGetter, ROOT),
       GW(<<F("n"), IF_(DocTodos)>>,
          Obj(<<NP("n", Num(1)), NP("todos", Arr(<<Todo(U1, "a"), Num(3)>>))>>),
          ById, ROOT),
       GW(<<F("n"), IF_(DocTodos)>>,
          Obj(<<NP("n", Num(1)), NP("todos", Arr(<<Todo(U1, "a"), AnonTodo("b")>>))>>),
          ById, ROOT),
       GW(DocUser, Root("user", Typed("User", U1, "t")), NoIdGetter, ROOT),
       GW(DocUser, Root("user", Named(U2, "y")), ById, Null),
       GW(DocUser, Root("user", Null), ById, ROOT),
       GW(<<Field("me", "user", <<>>, SelName), F("n")>>,
          Obj(<<NP("me", Obj(<<NP("id", Str(U1)), NP("name", Str(<<"z">>)),
                              NP("age", Num(3))>>)),
                NP("n", Null), NP("k", Num(5))>>), ById, ROOT),
       GW(<<OF("user", <<F("name"), OF("friend", SelIdName)>>)>>,
          Root("user", Obj(<<NP("name", Str(<<"x">>)), NP("friend", Named(U2, "f"))>>)),
          ById, Null),
       GW(<<OF("user", <<F("id"), OF("friend", <<F("name"), OF("todos", <<F("text")>>)>>)>>)>>,
          Root("user",
               Obj(<<NP("id", Str(U1)),
                     NP("friend",
                        Obj(<<NP("name", Str(<<"g">>)),
                              NP("todos", Arr(<<AnonTodo("b"), Todo(U2, "c")>>))>>))>>)),
          ById, Null),
       GW(<<F("n"), OF("todos", <<F("text")>>)>>,
          Obj(<<NP("n", Num(1)), NP("todos", Arr(<<AnonTodo("b"), Todo(U2, "c")>>))>>),
          ById, Null)
    >>

GraphCtx(w) ==
    [variables |-> w.variables, getDataID |-> w.getDataID, fragments |-> graphFragments]

GraphInit ==
    /\ store = EmptyCache
    /\ last = [w |-> 0, err |-> NoError, log |-> <<>>, before |-> EmptyCache]
    /\ nwrites = 0
    /\ fieldA = NoField
    /\ fieldB = NoField
    /\ env = NoVars
    /\ keyA = NotEncoded
    /\ keyB = NotEncoded
    /\ graph = EmptyGraph
    /\ glast = NoGraphWrite
    /\ NoClient
    /\ NoHost

\* The call returned or threw r = [graph, err, data]; the graph is as the
\* call left it either way.
GraphReturned(i, r) ==
    /\ graph' = r.graph
    /\ glast' = [w |-> i, err |-> r.err, data |-> r.data, before |-> graph]

GraphWrite(i) ==
    /\ nwrites < MaxWrites
    /\ GraphReturned(i, writeToGraph(graph, GraphWrites[i].id, GraphWrites[i].result,
                                     GraphWrites[i].doc, GraphCtx(GraphWrites[i])))
    /\ nwrites' = nwrites + 1
    /\ UNCHANGED <<store, last, fieldA, fieldB, env, keyA, keyB, clientVars, hostVars>>

GraphNext == \E i \in 1..Len(GraphWrites) : GraphWrite(i)

GraphSpec == GraphInit /\ [][GraphNext]_vars

(***************************************************************************)
(* What a selection set asks of a result tree: the error that writing it   *)
(* raises first, a fragment giving up quietly on a missing field and on    *)
(* nothing else                                                            *)
(***************************************************************************)
RECURSIVE FirstError(_, _, _, _), SelectionError(_, _, _), ItemsError(_, _, _, _)
FirstError(data, selections, i, fragments) ==
    IF i > Len(selections) THEN NoError
    ELSE IF SelectionError(data, selections[i], fragments) # NoError
    THEN SelectionError(data, selections[i], fragments)
    ELSE FirstError(data, selections, i + 1, fragments)

Quietly(err) == IF err = PartialWrite THEN NoError ELSE err

SelectionError(data, selection, fragments) ==
    IF selection.kind = "Field"
    THEN LET value == Get(data, resultKeyNameFromField(selection))
         IN  IF isUndefined(value) THEN PartialWrite
             ELSE IF Len(selection.sel) = 0 \/ isNull(value) THEN NoError
             ELSE IF value.t = "arr" THEN ItemsError(value.v, selection.sel, 1, fragments)
             ELSE IF value.t = "obj" THEN FirstError(value, selection.sel, 1, fragments)
             ELSE "NotComposite"
    ELSE IF selection.kind = "InlineFragment"
    THEN Quietly(FirstError(data, selection.sel, 1, fragments))
    ELSE IF selection.kind = "FragmentSpread"
    THEN IF selection.name \in DOMAIN fragments
         THEN Quietly(FirstError(data, fragments[selection.name], 1, fragments))
         ELSE "MissingFragment"
    ELSE "UnknownSelection"

ItemsError(items, sel, i, fragments) ==
    IF i > Len(items) THEN NoError
    ELSE LET err == IF isNull(items[i]) THEN NoError
                    ELSE IF items[i].t = "arr"
                    THEN ItemsError(items[i].v, sel, 1, fragments)
                    ELSE IF items[i].t = "obj"
                    THEN FirstError(items[i], sel, 1, fragments)
                    ELSE "NotComposite"
         IN  IF err # NoError THEN err ELSE ItemsError(items, sel, i + 1, fragments)

isFragment(selection) == selection.kind \in {"InlineFragment", "FragmentSpread"}

\* The selections of a fragment (of a spread: those of the fragment it names).
FragmentSelections(selection, fragments) ==
    IF selection.kind = "InlineFragment" THEN selection.sel
    ELSE IF selection.name \in DOMAIN fragments THEN fragments[selection.name]
    ELSE <<>>

\* The fragment selects a field that the result tree does not have, and
\* nothing worse happens in it before.
GivesUp(data, selection, fragments) ==
    /\ isFragment(selection)
    /\ FirstError(data, FragmentSelections(selection, fragments), 1, fragments)
          = PartialWrite

RECURSIVE Surrounding(_, _, _, _)
\* The selection set without the fragments that give up.
Surrounding(data, selections, i, fragments) ==
    IF i > Len(selections) THEN <<>>
    ELSE IF GivesUp(data, selections[i], fragments)
    THEN Surrounding(data, selections, i + 1, fragments)
    ELSE <<selections[i]>> \o Surrounding(data, selections, i + 1, fragments)

NoGraphCall == GW(<<>>, Obj(<<>>), NoIdGetter, ROOT)
GLastWrite == IF glast.w = 0 THEN NoGraphCall ELSE GraphWrites[glast.w]
GWrote == glast.w # 0

\* writeToGraph on the graph as it was before the last call, with the
\* selection set of that call less the fragments that give up.
SurroundingWrite ==
    writeToGraph(glast.before, GLastWrite.id, GLastWrite.result,
                 Surrounding(GLastWrite.result, GLastWrite.doc, 1, graphFragments),
                 GraphCtx(GLastWrite))

\* The same on an empty graph: what the surrounding selections store.
SurroundingAlone ==
    writeToGraph(EmptyGraph, GLastWrite.id, GLastWrite.result,
                 Surrounding(GLastWrite.result, GLastWrite.doc, 1, graphFragments),
                 GraphCtx(GLastWrite))

\* The last call had a fragment in its selection set that gives up, and
\* nothing in the selection set raises an error that reaches the caller.
FailSoftCase ==
    /\ GWrote
    /\ FirstError(GLastWrite.result, GLastWrite.doc, 1, graphFragments) = NoError
    /\ \E i \in 1..Len(GLastWrite.doc) :
          GivesUp(GLastWrite.result, GLastWrite.doc[i], graphFragments)

\* Everything node b holds, node a holds too.
NodeWithin(b, a) ==
    /\ \A i \in 1..Len(b.scalars) :
          PropsGet(a.scalars, b.scalars[i].k, 1) = b.scalars[i].v
    /\ \A i \in 1..Len(b.references) :
          PropsGet(a.references, b.references[i].k, 1) = b.references[i].v

\* C13 as stated: when a fragment selects a field the result tree lacks,
\* the call succeeds, returns the data of the surrounding selections only,
\* and leaves the graph as the surrounding selections alone leave it: none
\* of the fragment's fields, and no entity reached through them, is stored.
C13_FailSoftFragment ==
    FailSoftCase =>
        /\ glast.err = NoError
        /\ glast.data = SurroundingWrite.data
        /\ graph = SurroundingWrite.graph

\* What holds of it: the call succeeds, the data returned has none of the
\* fragment's fields, and the surrounding fields are stored.
C13_FailSoftFragmentData ==
    FailSoftCase =>
        /\ glast.err = NoError
        /\ glast.data = SurroundingWrite.data
        /\ \A id \in DOMAIN SurroundingAlone.graph :
              id \in DOMAIN graph /\ NodeWithin(SurroundingAlone.graph[id], graph[id])

\* A fragment gave up after its first field and an object it reached were
\* written.
C13_Witness ==
    /\ FailSoftCase
    /\ glast.err = NoError
    /\ glast.before # EmptyGraph
    /\ DOMAIN graph # DOMAIN SurroundingWrite.graph

Fatal == {"MissingFragment", "UnknownSelection", "NotComposite"}

\* C14 as stated: an error other than the partial-write signal that the
\* selection set raises, inside fragments nested to any depth or outside
\* them, is the error the caller of writeToGraph gets.
C14_FatalReachesCaller ==
    (GWrote /\ FirstError(GLastWrite.result, GLastWrite.doc, 1, graphFragments) \in Fatal)
        => glast.err = FirstError(GLastWrite.result, GLastWrite.doc, 1, graphFragments)

\* The error was raised inside a fragment that is itself inside a fragment
\* of the selection set.
RaisedAtDepthTwo(err) ==
    \E i \in 1..Len(GLastWrite.doc) :
        /\ isFragment(GLastWrite.doc[i])
        /\ SelectionError(GLastWrite.result, GLastWrite.doc[i], graphFragments) = err
        /\ \E j \in 1..Len(FragmentSelections(GLastWrite.doc[i], graphFragments)) :
              LET inner == FragmentSelections(GLastWrite.doc[i], graphFragments)[j]
              IN  /\ isFragment(inner)
                  /\ SelectionError(GLastWrite.result, inner, graphFragments) = err

\* Each of the three fatal errors has reached the caller from inside a
\* fragment; this one from two fragments deep, on a graph that held nodes.
C14_Witness ==
    /\ GWrote
    /\ glast.err \in Fatal
    /\ RaisedAtDepthTwo(glast.err)
    /\ glast.before # EmptyGraph

(***************************************************************************)
(* The client with its stack of optimistic layers, after sections 4.4 and  *)
(* 5 of the specification, on the inputs of the optimistic-mutation tests. *)
(* The base store and every layer are written by the store writer.         *)
(***************************************************************************)
ROOT_MUTATION == <<"ROOT_MUTATION">>

SelTodo == <<F("id"), F("__typename"), F("text")>>
\* query todoList { __typename todoList(id: 5) { __typename id todos {...} } }
DocTodoList ==
    <<F("__typename"),
      Field(NoAlias, "todoList", <<Arg("id", IntValue("5"))>>,
            <<F("__typename"), F("id"), OF("todos", SelTodo)>>)>>
\* mutation createTodo { createTodo { id text __typename } __typename }
DocCreateTodo == <<OF("createTodo", SelTodo), F("__typename")>>

TypedTodo(id, text) ==
    Obj(<<NP("__typename", Str(<<"Todo">>)), NP("id", Str(<<id>>)),
          NP("text", Str(<<text>>))>>)

\* The result of query todoList the client starts from.
TodoListResult ==
    Obj(<<NP("__typename", Str(<<"Query">>)),
          NP("todoList",
             Obj(<<NP("__typename", Str(<<"TodoList">>)), NP("id", Str(<<"5">>)),
                   NP("todos", Arr(<<TypedTodo("3", "Hello world"),
                                     TypedTodo("6", "Second task"),
                                     TypedTodo("12", "Do other stuff")>>))>>))>>)

MutationData(todo) ==
    Obj(<<NP("__typename", Str(<<"Mutation">>)), NP("createTodo", todo)>>)

\* The mutations: what each answers optimistically and what the server
\* answers when the request succeeds.  The third has the form of the two of
\* the tests.
Mutations ==
    << [optimisticResponse |-> MutationData(TypedTodo("99", "Optimistically generated")),
        result |-> MutationData(TypedTodo("99", "This one was created with a mutation."))],
       [optimisticResponse |-> MutationData(TypedTodo("66", "Optimistically generated 2")),
        result |-> MutationData(TypedTodo("66", "Second mutation."))],
       [optimisticResponse |-> MutationData(TypedTodo("33", "Optimistically generated 3")),
        result |-> MutationData(TypedTodo("33", "Third mutation."))] >>

QueryWrite(result) == W(DocTodoList, result, NoVars, ByTypenameId, ROOT_QUERY)
MutationWrite(data) == W(DocCreateTodo, data, NoVars, ByTypenameId, ROOT_MUTATION)

\* The query result `state` with state.todoList.todos = items.
updateQueriesTo(state, items) ==
    Obj(PropsPut(state.v, <<"todoList">>,
                 Obj(PropsPut(Get(state, <<"todoList">>).v, <<"todos">>, Arr(items)))))

\* updateQueries.todoList:
\*   state.todoList.todos.unshift(options.mutationResult.data.createTodo)
updateQueries(prev, mutationResult) ==
    updateQueriesTo(prev, <<Get(mutationResult, <<"createTodo">>)>>
                          \o Get(Get(prev, <<"todoList">>), <<"todos">>).v)

\* The query is written back with what the update function made of the
\* result read; a query that could not be read in full is left alone.
queryUpdated(cache, read, mutationResult) ==
    IF read.missing # <<>> THEN cache
    ELSE writeResultToStore(cache,
             QueryWrite(updateQueries(Obj(read.data), mutationResult))).store

\* The write function of a mutation, applied to `cache` with the data
\* `mutationResult` (optimistic or real): the mutation result is written at
\* ROOT_MUTATION, then the watched query is updated.
writeFn(cache, mutationResult) ==
    queryUpdated(writeResultToStore(cache, MutationWrite(mutationResult)).store,
                 readFromStore(cache, QueryWrite(Obj(<<>>))), mutationResult)

\* The fields of the entity `after` that `before` does not hold alike.
FieldsChanged(before, after) ==
    SelectSeq(after.v, LAMBDA p : Get(before, p.k) # p.v)

\* The diff of a layer: for every entity the write function changed, the
\* fields it changed.
getPatch(before, after) ==
    [id \in {x \in DOMAIN after : FieldsChanged(Entity(before, x), after[x]) # <<>>}
        |-> Obj(FieldsChanged(Entity(before, id), after[id]))]

\* overlay with the fields of the store below shadowing those of the diff.
overlayUnder(cache, diff) ==
    [id \in DOMAIN cache \cup DOMAIN diff |->
        IF id \in DOMAIN diff THEN Assign3(diff[id], Entity(cache, id)) ELSE cache[id]]

\* cache (+) diff: the fields the diff defines shadow those below.
overlay(cache, diff) ==
    [id \in DOMAIN cache \cup DOMAIN diff |->
        IF id \in DOMAIN diff THEN Assign3(Entity(cache, id), diff[id]) ELSE cache[id]]

\* base (+) layer 1 (+) ... (+) layer n, later layers shadowing earlier ones.
RECURSIVE effective(_, _, _)
effective(cache, layers, i) ==
    IF i > Len(layers) THEN cache
    ELSE effective(overlay(cache, layers[i].diff), layers, i + 1)

layerOver(view, mutationId) ==
    [id |-> mutationId,
     diff |-> getPatch(view, writeFn(view, Mutations[mutationId].optimisticResponse))]

\* record that pushes no layer before the request is answered.
recordLater(cache, layers, mutationId) == layers

\* record(mutationId, writeFn): the write function runs over the current
\* effective store and its diff is pushed as a new layer.
record(cache, layers, mutationId) ==
    Append(layers, layerOver(effective(cache, layers, 1), mutationId))

\* rebase that drops the layers above instead of replaying them.
rebaseNone(cache, kept, above, i) == kept

\* rebase that replays the layers above from the top one down.
RECURSIVE rebaseReversed(_, _, _, _)
rebaseReversed(cache, kept, above, i) ==
    IF i > Len(above) THEN kept
    ELSE rebaseReversed(cache, record(cache, kept, above[Len(above) + 1 - i].id), above, i + 1)

\* The layers above[i..] replayed in push order over cache (+) kept.
RECURSIVE rebase(_, _, _, _)
rebase(cache, kept, above, i) ==
    IF i > Len(above) THEN kept
    ELSE rebase(cache, record(cache, kept, above[i].id), above, i + 1)

\* LayerOf that finds the layer only when it is the top one.
LayerOfTop(layers, mutationId) ==
    IF layers # <<>> /\ layers[Len(layers)].id = mutationId THEN Len(layers) ELSE 0

LayerOf(layers, mutationId) ==
    IF \E i \in 1..Len(layers) : layers[i].id = mutationId
    THEN CHOOSE i \in 1..Len(layers) : layers[i].id = mutationId
    ELSE 0

removeAt(cache, layers, n) ==
    IF n = 0 THEN layers
    ELSE rebase(cache, SubSeq(layers, 1, n - 1), SubSeq(layers, n + 1, Len(layers)), 1)

\* remove that leaves the stack as it is.
removeNothing(cache, layers, mutationId) == layers

\* remove(mutationId): the matching layer is dropped and the layers above it
\* are rebased.
remove(cache, layers, mutationId) == removeAt(cache, layers, LayerOf(layers, mutationId))

\* commit(mutationId): the same as remove, the base store having absorbed
\* the write of the real result.
committed(cache, layers, mutationId) ==
    [base |-> cache, optimistic |-> remove(cache, layers, mutationId)]

\* commit with the write of the real result applied twice.
commitTwice(cache, layers, mutationId) ==
    committed(writeFn(writeFn(cache, Mutations[mutationId].result),
                      Mutations[mutationId].result), layers, mutationId)

commit(cache, layers, mutationId) ==
    committed(writeFn(cache, Mutations[mutationId].result), layers, mutationId)

\* extract(includeOptimistic)
extract(includeOptimistic) ==
    IF includeOptimistic THEN effective(base, optimistic, 1) ELSE base

Loading == {m \in DOMAIN mutationStore : mutationStore[m].loading}

\* MutationStorePut that sets every entry of the mutation store.
MutationStorePutAll(m, entry) == [x \in DOMAIN mutationStore \cup {m} |-> entry]

\* The entry of the mutation store of mutation m set to `entry`.
MutationStorePut(m, entry) ==
    [x \in DOMAIN mutationStore \cup {m} |-> IF x = m THEN entry ELSE mutationStore[x]]

\* The entity ids a read of the selection set from startId touches.
RECURSIVE touchedFrom(_, _, _, _), touchedThrough(_, _, _, _)
touchedFrom(cache, startId, selectionSet, ctx) ==
    {startId} \cup
    UNION {touchedThrough(cache, startId, selectionSet[i], ctx) : i \in 1..Len(selectionSet)}

touchedThrough(cache, startId, selection, ctx) ==
    IF isField(selection)
    THEN LET value == Get(Entity(cache, startId),
                          storeKeyNameFromField(selection, ctx.variables).key)
         IN  IF Len(selection.sel) = 0 THEN {}
             ELSE IF isIdValue(value)
             THEN touchedFrom(cache, value.v.id, selection.sel, ctx)
             ELSE IF isArray(value)
             THEN UNION {IF value.v[j].t = "str"
                         THEN touchedFrom(cache, value.v[j].v, selection.sel, ctx)
                         ELSE {} : j \in 1..Len(value.v)}
             ELSE {}
    ELSE IF isInlineFragment(selection)
    THEN (IF selection.included
          THEN touchedFrom(cache, startId, selection.sel, ctx) ELSE {})
    ELSE IF selection.name \in DOMAIN ctx.fragmentMap /\ selection.included
    THEN touchedFrom(cache, startId, ctx.fragmentMap[selection.name], ctx)
    ELSE {}

\* What the client watches: the list through query todoList, and the text
\* of one todo.
Watches ==
    << W(DocTodoList, Obj(<<>>), NoVars, ByTypenameId, ROOT_QUERY),
       W(<<F("text")>>, Obj(<<>>), NoVars, ByTypenameId, <<"Todo", "3">>) >>

\* A watcher after a read of `cache`: the ids the read touched, the tree it
\* gave, and the results `received` by the callback so far.
watched(w, cache, received) ==
    [w |-> w,
     touched |-> touchedFrom(cache, w.dataId, w.doc, Ctx(w)),
     result |-> readFromStore(cache, w).data,
     received |-> received]

\* watch(document, variables, startId, callback): the first read is
\* delivered as the initial result.
watch(cache, w) == watched(w, cache, <<readFromStore(cache, w).data>>)

\* The entity ids that differ between two views of the store.
WrittenIds(before, after) ==
    {id \in DOMAIN before \cup DOMAIN after : Entity(before, id) # Entity(after, id)}

\* The read of a dirty watcher re-run: the callback fires when the tree
\* differs from the previous one.
reread(watcher, cache, data) ==
    watched(watcher.w, cache,
            IF data = watcher.result THEN watcher.received
            ELSE Append(watcher.received, data))

\* A broadcaster that fires the callback of every watcher.
broadcastAll(ws, written, cache) ==
    [i \in 1..Len(ws) |->
        watched(ws[i].w, cache, Append(ws[i].received, readFromStore(cache, ws[i].w).data))]

\* The broadcaster: dirty = the watchers whose touched set meets the ids
\* written; the read of each dirty watcher is re-run on the store as the
\* write left it.
broadcast(ws, written, cache) ==
    [i \in 1..Len(ws) |->
        IF ws[i].touched \cap written = {} THEN ws[i]
        ELSE reread(ws[i], cache, readFromStore(cache, ws[i].w).data)]

\* The watchers whose callback the last flush fired.
Fired(ws, after) == {i \in 1..Len(ws) : Len(after[i].received) > Len(ws[i].received)}

\* Flushed with a flush between the removal of the layer and the write of
\* the real result.
FlushedMidCommit(op, m, before, after) ==
    /\ watchers' =
          IF op # "result" THEN broadcast(watchers, WrittenIds(before, after), after)
          ELSE broadcast(broadcast(watchers,
                                   WrittenIds(before, effective(base, remove(base, optimistic, m), 1)),
                                   effective(base, remove(base, optimistic, m), 1)),
                         WrittenIds(effective(base, remove(base, optimistic, m), 1), after),
                         after)
    /\ olast' = [op |-> op, m |-> m, before |-> before, base |-> base,
                 written |-> WrittenIds(before, after),
                 touched |-> [i \in 1..Len(watchers) |-> watchers[i].touched],
                 fired |-> Fired(watchers, watchers')]

\* One write of the client, the store it is seen through going from
\* `before` to `after`, and the flush that follows it.  olast keeps the ids
\* the write mutated, what each watcher's last read had touched, and the
\* watchers whose callback fired.
Flushed(op, m, before, after) ==
    /\ watchers' = broadcast(watchers, WrittenIds(before, after), after)
    /\ olast' = [op |-> op, m |-> m, before |-> before, base |-> base,
                 written |-> WrittenIds(before, after),
                 touched |-> [i \in 1..Len(watchers) |-> watchers[i].touched],
                 fired |-> Fired(watchers, watchers')]

OptimisticInit ==
    /\ store = EmptyCache
    /\ last = [w |-> 0, err |-> NoError, log |-> <<>>, before |-> EmptyCache]
    /\ nwrites = 0
    /\ fieldA = NoField
    /\ fieldB = NoField
    /\ env = NoVars
    /\ keyA = NotEncoded
    /\ keyB = NotEncoded
    /\ graph = EmptyGraph
    /\ glast = NoGraphWrite
    /\ base = writeResultToStore(EmptyCache, QueryWrite(TodoListResult)).store
    /\ optimistic = <<>>
    /\ mutationStore = <<>>
    /\ issued = <<>>
    /\ olast = NoOp
    /\ watchers = [i \in 1..Len(Watches) |->
                      watch(writeResultToStore(EmptyCache, QueryWrite(TodoListResult)).store,
                            Watches[i])]
    /\ NoHost

writerVars == <<store, last, nwrites, fieldA, fieldB, env, keyA, keyB, graph, glast>>

\* mutate({mutation, optimisticResponse, updateQueries}) up to the point
\* where it awaits the network: the layer is pushed and the watchers are
\* told before it returns.
\* `issued` keeps, for every mutation in the order of the calls, the
\* effective and the base store the call found, the mutations pending at any
\* time while it was, and its place in the order of the completions (0
\* while it is pending).
Mutate(m) ==
    /\ m \notin DOMAIN mutationStore
    /\ optimistic' = record(base, optimistic, m)
    /\ mutationStore' = MutationStorePut(m, [loading |-> TRUE, error |-> FALSE])
    /\ issued' = Append([i \in 1..Len(issued) |->
                            IF issued[i].m \in Loading
                            THEN [issued[i] EXCEPT !.with = @ \cup {m}]
                            ELSE issued[i]],
                        [m |-> m, before |-> extract(TRUE), base |-> base,
                         with |-> Loading, seq |-> 0])
    /\ Flushed("mutate", m, extract(TRUE), effective(base, optimistic', 1))
    /\ UNCHANGED <<base, writerVars, hostVars>>

\* The request of mutation m completed with r = [base, optimistic].
Completed(m, r, failed) ==
    /\ base' = r.base
    /\ optimistic' = r.optimistic
    /\ mutationStore' = MutationStorePut(m, [loading |-> FALSE, error |-> failed])
    /\ Flushed(IF failed THEN "error" ELSE "result", m, extract(TRUE),
               effective(r.base, r.optimistic, 1))
    /\ issued' = [i \in 1..Len(issued) |->
                      IF issued[i].m = m
                      THEN [issued[i] EXCEPT !.seq = 1 + Cardinality(DOMAIN mutationStore \ Loading)]
                      ELSE issued[i]]
    /\ UNCHANGED <<writerVars, hostVars>>

\* The server's result of mutation m is delivered: it is written to the
\* base store and the layer is committed.
DeliverResult(m) ==
    /\ m \in Loading
    /\ Completed(m, commit(base, optimistic, m), FALSE)

\* The request of mutation m fails: the layer is removed.
DeliverError(m) ==
    /\ m \in Loading
    /\ Completed(m, [base |-> base, optimistic |-> remove(base, optimistic, m)], TRUE)

OptimisticNext ==
    \E m \in 1..Len(Mutations) : Mutate(m) \/ DeliverResult(m) \/ DeliverError(m)

OptimisticSpec == OptimisticInit /\ [][OptimisticNext]_vars

(***************************************************************************)
(* Optimistic mutations: what extract(true) shows                          *)
(***************************************************************************)
TodoList5 == <<"TodoList", "5">>
\* The store id of the todo that mutation m creates.
TodoKey(m) ==
    dataIdFromObject(ByTypenameId, Get(Mutations[m].result, <<"createTodo">>)).v
OptimisticText(m) == Get(Get(Mutations[m].optimisticResponse, <<"createTodo">>), <<"text">>)
ServerText(m) == Get(Get(Mutations[m].result, <<"createTodo">>), <<"text">>)
\* TodoList5.todos of a store, a list of ids.
Todos(cache) == Get(Entity(cache, TodoList5), <<"todos">>).v
Listed(cache, m) == \E i \in 1..Len(Todos(cache)) : Todos(cache)[i] = Str(TodoKey(m))
TextOf(cache, m) == Get(Entity(cache, TodoKey(m)), <<"text">>)

IssuedOf(m) == issued[CHOOSE i \in 1..Len(issued) : issued[i].m = m]
Position(m) == CHOOSE i \in 1..Len(issued) : issued[i].m = m
Settled(m) == m \in DOMAIN mutationStore /\ ~mutationStore[m].loading
Failed(m) == m \in DOMAIN mutationStore /\ mutationStore[m].error
\* No other mutation was pending at any time while m was.
Alone(m) == IssuedOf(m).with = {}

\* C15: right after mutate returns, the request still unanswered,
\* extract(true) holds the optimistic entity with the optimistic text and
\* the list has one more reference than before, that of the entity.
C15_OptimisticVisible ==
    olast.op = "mutate" =>
        /\ olast.m \in Loading
        /\ TextOf(extract(TRUE), olast.m) = OptimisticText(olast.m)
        /\ Len(Todos(extract(TRUE))) = Len(Todos(olast.before)) + 1
        /\ Listed(extract(TRUE), olast.m)
        /\ ~Listed(olast.before, olast.m)

\* mutate has returned over a store that another mutation had written to
\* and with another layer pending below.
C15_Witness ==
    /\ olast.op = "mutate"
    /\ Len(optimistic) = 2
    /\ base # IssuedOf(issued[1].m).before
    /\ Len(Todos(extract(TRUE))) = Len(Todos(olast.before)) + 1

Pair(a, b) ==
    /\ a \in DOMAIN mutationStore
    /\ b \in DOMAIN mutationStore
    /\ Position(a) < Position(b)
    /\ IssuedOf(a).with = {b}
    /\ IssuedOf(b).with = {a}

\* The last step delivered the outcome of the second of a and b to complete.
BothCompleted(a, b) ==
    /\ Settled(a)
    /\ Settled(b)
    /\ olast.op \in {"result", "error"}
    /\ olast.m \in {a, b}

FirstFailed(a, b) == Pair(a, b) /\ BothCompleted(a, b) /\ Failed(a) /\ ~Failed(b)

BothSucceeding(a, b) ==
    /\ Pair(a, b)
    /\ ~Failed(a)
    /\ ~Failed(b)
    /\ Settled(b) => (Settled(a) /\ IssuedOf(a).seq < IssuedOf(b).seq)
    /\ (Settled(a) /\ Settled(b)) => BothCompleted(a, b)

TextInTime(cache, m) ==
    TextOf(cache, m) = IF Settled(m) THEN ServerText(m) ELSE OptimisticText(m)

\* C19: in every one of those states the effective store holds both
\* entities and a reference to each in the list, which is two longer than
\* when a was issued; each entity has its optimistic text while its own
\* mutation is pending and the server's text afterwards.
C19_ConcurrentSuccess ==
    \A a, b \in 1..Len(Mutations) :
        BothSucceeding(a, b) =>
            /\ Listed(extract(TRUE), a)
            /\ Listed(extract(TRUE), b)
            /\ Len(Todos(extract(TRUE))) = Len(Todos(IssuedOf(a).before)) + 2
            /\ TextInTime(extract(TRUE), a)
            /\ TextInTime(extract(TRUE), b)

\* a's response was delivered and b is still pending.
C19_Witness ==
    \E a, b \in 1..Len(Mutations) :
        /\ BothSucceeding(a, b)
        /\ Settled(a)
        /\ ~Settled(b)
        /\ TextOf(extract(TRUE), a) = ServerText(a)
        /\ TextOf(extract(TRUE), b) = OptimisticText(b)

\* Every request so far succeeded or is pending, and the responses were
\* delivered in the order of the calls.
AnsweredInPushOrder ==
    /\ \A i \in 1..Len(issued) : ~Failed(issued[i].m)
    /\ \A i, j \in 1..Len(issued) :
          (i < j /\ issued[j].seq # 0) => (issued[i].seq # 0 /\ issued[i].seq < issued[j].seq)

\* The items of the mutations issued, the last issued first.
PushedItems == [i \in 1..Len(issued) |-> Str(TodoKey(issued[Len(issued) + 1 - i].m))]

OptimisticItem(m) == Get(Mutations[m].optimisticResponse, <<"createTodo">>)
RealItem(m) == Get(Mutations[m].result, <<"createTodo">>)
BaseItems == Get(Get(TodoListResult, <<"todoList">>), <<"todos">>).v
\* The result of query todoList with the list `items`.
ListResult(items) == updateQueriesTo(TodoListResult, items)

\* The results the list watcher received are the trees with these lists.
Received(lists) ==
    /\ Len(watchers[1].received) = Len(lists)
    /\ \A k \in 1..Len(lists) :
          SameValue(Obj(watchers[1].received[k]), ListResult(lists[k]))

\* a then b were issued, a pending when b was, no other mutation was, and
\* both were answered with their results, a first.
AnsweredInTurn(a, b) ==
    /\ Len(issued) = 2
    /\ Pair(a, b)
    /\ Settled(a) /\ Settled(b)
    /\ ~Failed(a) /\ ~Failed(b)
    /\ IssuedOf(a).seq < IssuedOf(b).seq

\* C21: the watcher of the list then has received, after its initial
\* result, four results and no other: [a optimistic, base], [b optimistic,
\* a optimistic, base], [b optimistic, a real, base], [b real, a real, base].
C21_WatcherResults ==
    \A a, b \in 1..Len(Mutations) :
        AnsweredInTurn(a, b) =>
            Received(<< BaseItems,
                        <<OptimisticItem(a)>> \o BaseItems,
                        <<OptimisticItem(b), OptimisticItem(a)>> \o BaseItems,
                        <<OptimisticItem(b), RealItem(a)>> \o BaseItems,
                        <<RealItem(b), RealItem(a)>> \o BaseItems >>)

C21_Witness ==
    \E a, b \in 1..Len(Mutations) :
        /\ AnsweredInTurn(a, b)
        /\ Len(watchers[1].received) = 5
        /\ olast.fired = {1}

RECURSIVE readThrough(_, _, _, _)
readThrough(layers, n, id, key) ==
    IF n = 0 THEN Get(Entity(base, id), key)
    ELSE IF id \in DOMAIN layers[n].diff /\ Has(layers[n].diff[id], key)
    THEN Get(layers[n].diff[id], key)
    ELSE readThrough(layers, n - 1, id, key)

\* The ids, and the fields of an id, that the base store or a layer defines.
DefinedIds == DOMAIN base \cup UNION {DOMAIN optimistic[n].diff : n \in 1..Len(optimistic)}
DefinedFields(id) ==
    KeySet(Entity(base, id)) \cup
    UNION {KeySet(Entity(optimistic[n].diff, id)) : n \in 1..Len(optimistic)}

\* The store read through the stack is, field by field, the scan of the
\* layers from the top down.
ReadsThroughStack ==
    /\ DOMAIN extract(TRUE) = DefinedIds
    /\ \A id \in DefinedIds :
          /\ KeySet(extract(TRUE)[id]) = DefinedFields(id)
          /\ \A key \in DefinedFields(id) :
                Get(extract(TRUE)[id], key) =
                    readThrough(optimistic, Len(optimistic), id, key)

\* No response was delivered since mutate was called for m.
Undisturbed(m) == \A x \in IssuedOf(m).with : ~Settled(x)

ClientWrote == olast.op # "none"

RECURSIVE LiteralOf(_), Substituted(_, _), ReferencedIn(_)

\* The literal a JSON value is written as in a document.
LiteralOf(value) ==
    CASE value.t = "num" -> IntValue(ToString(value.v))
      [] value.t = "str" -> StringValue(value.v)
      [] value.t = "bool" -> BooleanValue(value.v)
      [] value.t = "arr" ->
           ListValueNode([i \in 1..Len(value.v) |-> LiteralOf(value.v[i])])
      [] value.t = "obj" ->
           ObjectValue([i \in 1..Len(value.v) |->
                           Arg(value.v[i].k[1], LiteralOf(value.v[i].v))])
      [] OTHER -> NullValue

\* An argument value with every variable reference replaced by the literal of
\* the variable's value.
Substituted(value, variables) ==
    CASE value.kind = "Variable" -> LiteralOf(Get(variables, <<value.value>>))
      [] value.kind = "ObjectValue" ->
           ObjectValue([i \in 1..Len(value.value) |->
                           Arg(value.value[i].name,
                               Substituted(value.value[i].value, variables))])
      [] value.kind = "ListValue" ->
           ListValueNode([i \in 1..Len(value.value) |->
                             Substituted(value.value[i], variables)])
      [] OTHER -> value

SubstitutedField(field, variables) ==
    [field EXCEPT !.args = [i \in 1..Len(field.args) |->
                               Arg(field.args[i].name,
                                   Substituted(field.args[i].value, variables))]]

\* The names of the variables an argument value refers to.
ReferencedIn(value) ==
    IF value.kind = "Variable" THEN {value.value}
    ELSE IF value.kind = "ObjectValue"
    THEN UNION {ReferencedIn(value.value[i].value) : i \in 1..Len(value.value)}
    ELSE IF value.kind = "ListValue"
    THEN UNION {ReferencedIn(value.value[i]) : i \in 1..Len(value.value)}
    ELSE {}

ReferencedBy(field) ==
    UNION {ReferencedIn(field.args[i].value) : i \in 1..Len(field.args)}

\* Every variable the field refers to has a value that a literal can hold.
Supplied25(field, variables) ==
    \A v \in ReferencedBy(field) : Get(variables, <<v>>).t \notin {"undefined", "null"}

AgreeOn(names, e1, e2) == \A v \in names : Get(e1, <<v>>) = Get(e2, <<v>>)

\* C25: the key of a field whose arguments refer to variables (at top level or
\* nested in an object or list argument) is the key of the same field with
\* each variable's value written as a literal, and the key is the same under
\* every variable environment that gives the referenced variables the same
\* values.
C25_SubstitutionBeforeEncoding ==
    (keyA # NotEncoded /\ keyA.err = NoError) =>
        /\ Supplied25(fieldA, env) =>
               storeKeyNameFromField(SubstitutedField(fieldA, env), NoVars)
                   = [key |-> keyA.key, err |-> NoError]
        /\ \A j \in 1..Len(Envs) :
               AgreeOn(ReferencedBy(fieldA), env, Envs[j]) =>
                   storeKeyNameFromField(fieldA, Envs[j]).key = keyA.key

\* A field with a variable nested in an object argument has been encoded under
\* an environment that differs from another one only in variables the field
\* does not refer to.
C25_Witness ==
    /\ keyA # NotEncoded /\ keyA.err = NoError
    /\ fieldA.name = "f" /\ ReferencedBy(fieldA) = {"x"}
    /\ Supplied25(fieldA, env)
    /\ \E j \in 1..Len(Envs) :
          Envs[j] # env /\ AgreeOn({"x"}, env, Envs[j])
    /\ ReferencedBy(fieldB) = {"n"}
    /\ fieldB.args[1].value.kind = "ObjectValue"
    /\ Supplied25(fieldB, env)
    /\ keyB.err = NoError

(***************************************************************************)
(* A null under a selection set                                            *)
(***************************************************************************)
KeysOf(entity) == IF entity.t = "obj" THEN {entity.v[i].k : i \in 1..Len(entity.v)} ELSE {}

\* after is before with null at (id, key) and nothing else changed.
OnlySlotNulled(before, after, id, key) ==
    /\ id \in DOMAIN after
    /\ Get(after[id], key) = Null
    /\ DOMAIN after = DOMAIN before \cup {id}
    /\ \A x \in DOMAIN before \ {id} : after[x] = before[x]
    /\ KeysOf(after[id]) = KeysOf(Entity(before, id)) \cup {key}
    /\ \A k \in KeysOf(after[id]) \ {key} : Get(after[id], k) = Get(before[id], k)

\* The write is of one field with a selection set whose value is null.
NullComposite(w) ==
    /\ Len(w.doc) = 1
    /\ isField(w.doc[1])
    /\ Len(w.doc[1].sel) > 0
    /\ isNull(Get(w.result, resultKeyNameFromField(w.doc[1])))

\* Fields with a selection set, and the entities they are written on.
CompositeSlots ==
    { <<ROOT_QUERY, OF("user", SelIdName)>>, <<ROOT_QUERY, OF("todos", SelIdText)>>,
      <<ROOT_QUERY, Field("me", "user", <<>>, SelIdName)>>,
      <<U1, OF("friend", SelName)>>,
      <<ROOT_QUERY,
        Field("filteredTodos", "todos", <<Arg("completed", BooleanValue(TRUE))>>,
              SelIdText)>> }

NullWritten(cache, slot) ==
    writeFieldToStore([store |-> cache, err |-> NoError, log |-> <<>>], slot[2], Null,
                      slot[1], [variables |-> NoVars, dataIdFromObject |-> ById,
                                fragmentMap |-> fragmentMap])

\* C26: a field with a selection set whose value is null stores null at
\* (startId, fieldKey), whatever was stored there, and no other field and no
\* other entity is created or changed: so for the write of such a field that
\* has just been made, and for the write of null to each composite field on
\* the store as it stands.
C26_NullComposite ==
    /\ (Succeeded /\ NullComposite(LastWrite)) =>
           OnlySlotNulled(last.before, store, LastWrite.dataId,
                          storeKeyNameFromField(LastWrite.doc[1], LastWrite.variables).key)
    /\ \A slot \in CompositeSlots :
           /\ NullWritten(store, slot).err = NoError
           /\ OnlySlotNulled(store, NullWritten(store, slot).store, slot[1],
                             storeKeyNameFromField(slot[2], NoVars).key)

\* Null has been written over a reference to an entity, which is still in
\* the store.
C26_Witness ==
    /\ Succeeded /\ NullComposite(LastWrite)
    /\ isIdValue(Get(Entity(last.before, ROOT_QUERY), <<"user">>))
    /\ Get(Entity(last.before, ROOT_QUERY), <<"user">>).v.id \in DOMAIN store
    /\ Get(Entity(store, ROOT_QUERY), <<"user">>) = Null

\* The same for the graph writer: null is stored as the reference of the
\* field, and no other node, scalar or reference changes.
C26_GraphNullComposite ==
    (glast.w # 0 /\ glast.err = NoError /\ NullComposite(GraphWrites[glast.w])
       /\ GraphWrites[glast.w].id = ROOT) =>
        /\ Get(Obj(graph[ROOT.v].references), <<"user">>) = Null
        /\ DOMAIN graph = DOMAIN glast.before \cup {ROOT.v}
        /\ \A x \in DOMAIN glast.before \ {ROOT.v} : graph[x] = glast.before[x]
        /\ ROOT.v \in DOMAIN glast.before =>
              /\ graph[ROOT.v].scalars = glast.before[ROOT.v].scalars
              /\ \A k \in KeysOf(Obj(graph[ROOT.v].references)) \ {<<"user">>} :
                    Get(Obj(graph[ROOT.v].references), k)
                        = Get(Obj(glast.before[ROOT.v].references), k)

(***************************************************************************)
(* Fields without a selection set                                          *)
(***************************************************************************)
\* Values of a field without a selection set.
LeafValues ==
    { Null, Bool(TRUE), Num(1), Str(<<"s">>), Arr(<<Str(<<"a">>), Str(<<"b">>)>>),
      Arr(<<>>), Obj(<<NP("p", Num(1))>>),
      Obj(<<NP("type", Str(<<"id">>)), NP("id", Str(U1))>>) }

LeafWritten(cache, value) ==
    writeFieldToStore([store |-> cache, err |-> NoError, log |-> <<>>], F("blob"), value,
                      ROOT_QUERY, [variables |-> NoVars, dataIdFromObject |-> ById,
                                   fragmentMap |-> fragmentMap])

\* The last selection of the write is a field without a selection set that
\* has a value.
LeafLast(w) ==
    /\ Len(w.doc) > 0
    /\ isField(w.doc[Len(w.doc)])
    /\ Len(w.doc[Len(w.doc)].sel) = 0
    /\ ~isUndefined(Get(w.result, resultKeyNameFromField(w.doc[Len(w.doc)])))

LeafLastValue(w) == Get(w.result, resultKeyNameFromField(w.doc[Len(w.doc)]))

LeafLastKey(w) == storeKeyNameFromField(w.doc[Len(w.doc)], w.variables).key

\* after holds stored at ROOT_QUERY.blob, and the write made no entity but
\* ROOT_QUERY and changed no other.
LeafStored(before, after, stored) ==
    /\ ROOT_QUERY \in DOMAIN after
    /\ Get(after[ROOT_QUERY], <<"blob">>) = stored
    /\ DOMAIN after = DOMAIN before \cup {ROOT_QUERY}
    /\ \A x \in DOMAIN before \ {ROOT_QUERY} : after[x] = before[x]

\* C27 as stated: a field without a selection set stores null, a boolean, a
\* number, a string or a list of strings as it is, and the wrapper
\* {type: 'json', json: v} only when v is an object; no reference is stored
\* and no entity is created for the value.
C27_ScalarInline ==
    /\ (Succeeded /\ LeafLast(LastWrite) /\ LastWrite.dataId \in DOMAIN store) =>
           Get(store[LastWrite.dataId], LeafLastKey(LastWrite))
               = IF LeafLastValue(LastWrite).t = "obj"
                 THEN JsonValue(LeafLastValue(LastWrite))
                 ELSE LeafLastValue(LastWrite)
    /\ Wrote =>
           \A v \in LeafValues :
               /\ LeafWritten(store, v).err = NoError
               /\ LeafStored(store, LeafWritten(store, v).store,
                             IF v.t = "obj" THEN JsonValue(v) ELSE v)

\* What the writer does: the wrapper is stored for objects and for lists,
\* everything else is stored as it is.
C27_ScalarInlineListsWrapped ==
    /\ (Succeeded /\ LeafLast(LastWrite) /\ LastWrite.dataId \in DOMAIN store) =>
           Get(store[LastWrite.dataId], LeafLastKey(LastWrite))
               = IF LeafLastValue(LastWrite).t \in {"obj", "arr"}
                 THEN JsonValue(LeafLastValue(LastWrite))
                 ELSE LeafLastValue(LastWrite)
    /\ \A v \in LeafValues :
           /\ LeafWritten(store, v).err = NoError
           /\ LeafStored(store, LeafWritten(store, v).store,
                         IF v.t \in {"obj", "arr"} THEN JsonValue(v) ELSE v)

\* A write whose last field has no selection set and a list of strings for
\* value has returned.
C27_Witness ==
    /\ Succeeded /\ LeafLast(LastWrite)
    /\ LeafLastValue(LastWrite) = Arr(<<Str(<<"s">>)>>)

(***************************************************************************)
(* Arrays under a selection set                                            *)
(***************************************************************************)
\* The entity holds the fields without a selection set that the element
\* supplies; with their values when exact.
HoldsSelected(entity, element, sel, exact) ==
    \A j \in 1..Len(sel) :
        (/\ isField(sel[j]) /\ Len(sel[j].sel) = 0
         /\ ~isUndefined(Get(element, resultKeyNameFromField(sel[j])))) =>
            /\ Has(entity, <<sel[j].name>>)
            /\ exact => Get(entity, <<sel[j].name>>)
                            = Get(element, resultKeyNameFromField(sel[j]))

RECURSIVE ListShape(_, _, _, _, _), GraphListShape(_, _, _, _)

\* stored is the reference list of the array data in the cache: null for
\* null, a list of the same shape for an array, the id of an entity that
\* holds the selected fields for an object.
ListShape(cache, stored, data, sel, exact) ==
    /\ stored.t = "arr"
    /\ Len(stored.v) = Len(data.v)
    /\ \A i \in 1..Len(data.v) :
          IF isNull(data.v[i]) THEN stored.v[i] = Null
          ELSE IF isArray(data.v[i])
          THEN ListShape(cache, stored.v[i], data.v[i], sel, exact)
          ELSE /\ stored.v[i].t = "str"
               /\ stored.v[i].v \in DOMAIN cache
               /\ HoldsSelected(cache[stored.v[i].v], data.v[i], sel, exact)

\* The same in the graph, where the fields of a node are its scalars.
GraphListShape(g, stored, data, sel) ==
    /\ stored.t = "arr"
    /\ Len(stored.v) = Len(data.v)
    /\ \A i \in 1..Len(data.v) :
          IF isNull(data.v[i]) THEN stored.v[i] = Null
          ELSE IF isArray(data.v[i])
          THEN GraphListShape(g, stored.v[i], data.v[i], sel)
          ELSE /\ stored.v[i].t = "str"
               /\ stored.v[i].v \in DOMAIN g
               /\ HoldsSelected(Obj(g[stored.v[i].v].scalars), data.v[i], sel, TRUE)

\* Selection i of the write is a field with a selection set whose value is
\* an array.
ArrayComposite(w, i) ==
    /\ isField(w.doc[i])
    /\ Len(w.doc[i].sel) > 0
    /\ isArray(Get(w.result, resultKeyNameFromField(w.doc[i])))

Flat(list) == \A i \in 1..Len(list.v) : ~isArray(list.v[i])

\* C28 as stated: the reference list stored for an array under a selection
\* set has the length of the array and holds, position by position, null for
\* null, a list of the same shape for an array, and a reference to an entity
\* holding the element's selected fields for an object.
C28_ReferenceListShape ==
    Succeeded =>
        \A i \in 1..Len(LastWrite.doc) :
            ArrayComposite(LastWrite, i) =>
                ListShape(store,
                          Get(Entity(store, LastWrite.dataId),
                              storeKeyNameFromField(LastWrite.doc[i],
                                                    LastWrite.variables).key),
                          Get(LastWrite.result, resultKeyNameFromField(LastWrite.doc[i])),
                          LastWrite.doc[i].sel, ConflictFree(last.log))

\* The same for arrays none of whose elements is an array.
C28_ReferenceListShapeFlat ==
    Succeeded =>
        \A i \in 1..Len(LastWrite.doc) :
            (/\ ArrayComposite(LastWrite, i)
             /\ Flat(Get(LastWrite.result, resultKeyNameFromField(LastWrite.doc[i])))) =>
                ListShape(store,
                          Get(Entity(store, LastWrite.dataId),
                              storeKeyNameFromField(LastWrite.doc[i],
                                                    LastWrite.variables).key),
                          Get(LastWrite.result, resultKeyNameFromField(LastWrite.doc[i])),
                          LastWrite.doc[i].sel, ConflictFree(last.log))

\* The statement for the graph writer, arrays inside arrays included.
C28_GraphReferenceListShape ==
    (glast.w # 0 /\ glast.err = NoError /\ GraphWrites[glast.w].id = ROOT) =>
        \A i \in 1..Len(GraphWrites[glast.w].doc) :
            ArrayComposite(GraphWrites[glast.w], i) =>
                GraphListShape(graph,
                               Get(Obj(graph[ROOT.v].references),
                                   getFieldKey(GraphWrites[glast.w].doc[i], NoVars)),
                               Get(GraphWrites[glast.w].result,
                                   resultKeyNameFromField(GraphWrites[glast.w].doc[i])),
                               GraphWrites[glast.w].doc[i].sel)

\* An array holding an object, a null and an object without id has been
\* written under a selection set.
C28_Witness ==
    /\ Succeeded
    /\ \E i \in 1..Len(LastWrite.doc) :
          /\ ArrayComposite(LastWrite, i)
          /\ Len(Get(LastWrite.result, resultKeyNameFromField(LastWrite.doc[i])).v) = 3
          /\ Flat(Get(LastWrite.result, resultKeyNameFromField(LastWrite.doc[i])))

\* An array holding an array has been written under a selection set.
C28_NestedWritten ==
    /\ Succeeded
    /\ \E i \in 1..Len(LastWrite.doc) :
          /\ ArrayComposite(LastWrite, i)
          /\ ~Flat(Get(LastWrite.result, resultKeyNameFromField(LastWrite.doc[i])))

C28_GraphNestedWritten ==
    /\ glast.w # 0 /\ glast.err = NoError
    /\ \E i \in 1..Len(GraphWrites[glast.w].doc) :
          /\ ArrayComposite(GraphWrites[glast.w], i)
          /\ ~Flat(Get(GraphWrites[glast.w].result,
                       resultKeyNameFromField(GraphWrites[glast.w].doc[i])))

(***************************************************************************)
(* Argument values of an unsupported kind                                  *)
(***************************************************************************)
CustomValue == [kind |-> "CustomValue", value |-> 0]

\* Fields with an argument value of an unsupported kind: at top level, in an
\* object, in a list, in an object in a list, after a supported argument.
BadFields ==
    << [kind |-> "NullValue", field |-> FA("m", <<Arg("x", NullValue)>>)],
       [kind |-> "CustomValue", field |-> FA("m", <<Arg("x", CustomValue)>>)],
       [kind |-> "NullValue",
        field |-> FA("m", <<Arg("o", ObjectValue(<<Arg("p", IntValue("1")),
                                                   Arg("q", NullValue)>>))>>)],
       [kind |-> "CustomValue",
        field |-> FA("m", <<Arg("l", ListValueNode(<<IntValue("1"), CustomValue>>))>>)],
       [kind |-> "NullValue",
        field |-> FA("m", <<Arg("l", ListValueNode(
                                <<ObjectValue(<<Arg("p", NullValue)>>)>>))>>)],
       [kind |-> "CustomValue",
        field |-> FA("m", <<Arg("a", IntValue("1")), Arg("x", CustomValue)>>)] >>

BadWritten(cache, field) ==
    writeFieldToStore([store |-> cache, err |-> NoError, log |-> <<>>], field, Num(1),
                      ROOT_QUERY, [variables |-> NoVars, dataIdFromObject |-> ById,
                                   fragmentMap |-> fragmentMap])

\* C29: the key of a field with an argument value of an unsupported kind, at
\* any depth, is an error that names the kind, and the write of the field
\* fails with that error and stores nothing for the field.
C29_UnsupportedArgumentKind ==
    /\ \A i \in 1..Len(BadFields) :
          /\ storeKeyNameFromField(BadFields[i].field, NoVars)
                = [key |-> <<>>, err |-> "UnsupportedArgumentKind:" \o BadFields[i].kind]
          /\ BadWritten(store, BadFields[i].field)
                = [store |-> store, log |-> <<>>,
                   err |-> "UnsupportedArgumentKind:" \o BadFields[i].kind]
    /\ (Wrote /\ LastWrite.doc = DocBadArg) =>
          /\ last.err = "UnsupportedArgumentKind:NullValue"
          /\ KeysOf(Entity(store, ROOT_QUERY))
                = KeysOf(Entity(last.before, ROOT_QUERY)) \cup {<<"n">>}
          /\ DOMAIN store = DOMAIN last.before \cup {ROOT_QUERY}

\* The write of `n  m(x: null)` has thrown on a store that held other fields,
\* having stored n.
C29_Witness ==
    /\ Wrote /\ LastWrite.doc = DocBadArg
    /\ last.err # NoError
    /\ last.before # EmptyCache
    /\ Get(Entity(store, ROOT_QUERY), <<"n">>) = Num(6)

(***************************************************************************)
(* The frame of a write                                                    *)
(***************************************************************************)
RECURSIVE NamedKeys(_, _, _)

\* The field keys a selection set names, at any depth and through its
\* fragments.
NamedKeys(sel, variables, fragments) ==
    UNION { IF isField(sel[i])
            THEN {storeKeyNameFromField(sel[i], variables).key}
                     \cup NamedKeys(sel[i].sel, variables, fragments)
            ELSE IF isInlineFragment(sel[i])
            THEN NamedKeys(sel[i].sel, variables, fragments)
            ELSE IF sel[i].name \in DOMAIN fragments
            THEN NamedKeys(fragments[sel[i].name], variables, fragments)
            ELSE {} : i \in 1..Len(sel) }

\* The write stored the slot (id, key).
Stored(log, id, key) == \E i \in 1..Len(log) : log[i].dataId = id /\ log[i].key = key

\* The ids handed to mergeWithGenerated by the event, and those it hands to
\* itself for the fields of the two entities.
MergedBy(event) ==
    IF event.kind # "object" \/ isUndefined(event.genBefore) THEN {}
    ELSE {event.old.v.id, event.new.v.id}
         \cup UNION { IF /\ isIdValue(Get(event.genBefore, k))
                         /\ isGeneratedId(Get(event.genBefore, k).v.id)
                         /\ isIdValue(Get(event.realBefore, k))
                      THEN {Get(event.genBefore, k).v.id, Get(event.realBefore, k).v.id}
                      ELSE {} : k \in KeysOf(event.genBefore) }

\* The entities that took part in a reconciliation of the write.
Reconciled(log) == UNION {MergedBy(log[i]) : i \in 1..Len(log)}

SlotChanged(id, key) == Get(Entity(store, id), key) # Get(Entity(last.before, id), key)

\* C30: a successful write changes only slots it stored, under field keys its
\* selection set names, and entities that took part in a reconciliation;
\* every other entity and every other field keeps its value.
C30_WriteFrame ==
    Succeeded =>
        \A id \in (DOMAIN last.before \cup DOMAIN store) \ Reconciled(last.log) :
            /\ id \in DOMAIN last.before => id \in DOMAIN store
            /\ \A key \in KeysOf(Entity(last.before, id)) \cup KeysOf(Entity(store, id)) :
                  SlotChanged(id, key) =>
                      /\ Stored(last.log, id, key)
                      /\ key \in NamedKeys(LastWrite.doc, LastWrite.variables, fragmentMap)

\* A write that visited ROOT_QUERY and U1 has left a field of each and a
\* third entity as they were.
C30_Witness ==
    /\ Succeeded
    /\ Reconciled(last.log) = {}
    /\ \E key \in KeysOf(Entity(store, ROOT_QUERY)) : SlotChanged(ROOT_QUERY, key)
    /\ \E key \in KeysOf(Entity(last.before, ROOT_QUERY)) :
          ~Stored(last.log, ROOT_QUERY, key)
    /\ \E id \in DOMAIN last.before :
          \A i \in 1..Len(last.log) : last.log[i].dataId # id

\* A write with a reconciliation has returned.
C30_ReconciledWitness == Succeeded /\ Reconciled(last.log) # {}

\* The frame of a graph write that returned: no node is removed, and the
\* scalars and references that changed are under field keys the selection
\* set names.
C30_GraphWriteFrame ==
    (glast.w # 0 /\ glast.err = NoError) =>
        \A id \in DOMAIN glast.before :
            /\ id \in DOMAIN graph
            /\ \A key \in KeysOf(Obj(graph[id].scalars))
                          \cup KeysOf(Obj(glast.before[id].scalars)) :
                  Get(Obj(graph[id].scalars), key)
                      # Get(Obj(glast.before[id].scalars), key)
                      => key \in NamedKeys(GraphWrites[glast.w].doc, NoVars, graphFragments)
            /\ \A key \in KeysOf(Obj(graph[id].references))
                          \cup KeysOf(Obj(glast.before[id].references)) :
                  Get(Obj(graph[id].references), key)
                      # Get(Obj(glast.before[id].references), key)
                      => key \in NamedKeys(GraphWrites[glast.w].doc, NoVars, graphFragments)

(***************************************************************************)
(* The store after a rejected overwrite                                    *)
(***************************************************************************)
\* The write was rejected at its first field, the only one processed.
RejectedAtFirstField == OverwriteCase /\ last.err = "IdentityOverwrite"

\* C31 as stated: a write rejected with IdentityOverwrite leaves the store as
\* it was before the rejected field was processed; no entity is made under
\* the synthetic id, none is made or changed through the rejected object.
C31_RejectedWriteLeavesStore == RejectedAtFirstField => store = last.before

\* What the rejected write leaves: the entities of before, and the slot, are
\* as they were, but for those written through the rejected object.
C31_RejectedWriteKeepsVisited ==
    RejectedAtFirstField =>
        /\ DOMAIN last.before \subseteq DOMAIN store
        /\ \A id \in DOMAIN last.before :
              (\A i \in 1..Len(last.log) : last.log[i].dataId # id)
                  => store[id] = last.before[id]

\* A rejected write has left an entity under the synthetic id.
C31_Witness ==
    /\ RejectedAtFirstField
    /\ \E id \in DOMAIN store \ DOMAIN last.before : isGeneratedId(id)

(***************************************************************************)
(* Referential integrity                                                   *)
(***************************************************************************)
RECURSIVE ListNamesEntities(_, _)

\* Every id of a reference list, lists inside it included, is a key of ids.
ListNamesEntities(list, ids) ==
    \A i \in 1..Len(list.v) :
        IF isArray(list.v[i]) THEN ListNamesEntities(list.v[i], ids)
        ELSE list.v[i].t = "str" => list.v[i].v \in ids

\* Every reference and every element of a reference list in the cache names
\* an entity of the cache.
Integrity(cache) ==
    \A id \in DOMAIN cache :
        \A i \in 1..Len(cache[id].v) :
            /\ isIdValue(cache[id].v[i].v) => cache[id].v[i].v.v.id \in DOMAIN cache
            /\ isArray(cache[id].v[i].v)
                  => ListNamesEntities(cache[id].v[i].v, DOMAIN cache)

\* The store is the outcome of successful writes only, the first made on the
\* empty store.
SuccessfulHistory ==
    /\ Succeeded
    /\ \/ last.before = EmptyCache
       \/ \E i \in 1..Len(Writes) :
             writeResultToStore(EmptyCache, Writes[i])
                 = [store |-> last.before, err |-> NoError,
                    log |-> writeResultToStore(EmptyCache, Writes[i]).log]

\* C32 as stated: after successful writes from the empty store, every
\* reference stored in an entity, alone or in a list, names an entity of the
\* store.
C32_ReferentialIntegrity == SuccessfulHistory => Integrity(store)

\* An object none of whose selected fields is in the result has been
\* written by a successful write on the empty store.
C32_Witness ==
    /\ SuccessfulHistory
    /\ last.before = EmptyCache
    /\ LastWrite.result = Root("user", Obj(<<>>))

\* The same for the graph: every reference of a node, alone or in a list,
\* names a node, whether the writes returned or threw.
C32_GraphReferentialIntegrity ==
    \A id \in DOMAIN graph :
        \A i \in 1..Len(graph[id].references) :
            LET ref == graph[id].references[i].v
            IN  /\ ref.t = "str" => ref.v \in DOMAIN graph
                /\ isArray(ref) => ListNamesEntities(ref, DOMAIN graph)

(***************************************************************************)
(* The data writeToGraph returns                                           *)
(***************************************************************************)
LastGraphWrite == GraphWrites[glast.w]

\* The write returned and the data has a value for every selected field, so
\* that no fragment write is abandoned.
ReturnedWhole ==
    /\ glast.w # 0 /\ glast.err = NoError
    /\ Supplied(LastGraphWrite.result, LastGraphWrite.doc, graphFragments)

\* C33: when no fragment write is abandoned, the data writeToGraph returns is
\* the input data restricted, at every level, to the response keys the
\* selection set selects, nulls and list shapes kept; what is not selected
\* is not returned.
C33_ReturnedData ==
    ReturnedWhole =>
        glast.data = Restrict(<<>>, LastGraphWrite.result, LastGraphWrite.doc, 1,
                              graphFragments)

\* The write returned data for an input that holds fields the selection set
\* does not select, at the top and inside an object under an alias.
C33_Witness ==
    /\ ReturnedWhole
    /\ Has(LastGraphWrite.result, <<"k">>)
    /\ ~Has(Obj(glast.data), <<"k">>)
    /\ Get(Obj(glast.data), <<"n">>) = Null
    /\ Has(Get(LastGraphWrite.result, <<"me">>), <<"age">>)

\* The write returned data for a list that holds an object, a null and a list.
C33_ListWitness ==
    /\ ReturnedWhole
    /\ isArray(Get(LastGraphWrite.result, <<"todos">>))
    /\ Len(Get(Obj(glast.data), <<"todos">>).v) = 3

(***************************************************************************)
(* Graph writes without an id                                              *)
(***************************************************************************)
RECURSIVE NodesOf(_, _, _), NodesOfValue(_, _, _)

\* The node of an object: `(d)` when its data id is the string d, else the
\* path it is given (null when it has none).
NodeOf(path, object) ==
    IF Get(object, <<"id">>).t = "str"
    THEN Str(<<"(">> \o Get(object, <<"id">>).v \o <<")">>)
    ELSE path

\* The nodes the objects under node id are to be written to: [id, object,
\* sel] for the object itself when id is not null, and for its descendants.
NodesOf(id, object, sel) ==
    (IF isNull(id) THEN {} ELSE {[id |-> id.v, object |-> object, sel |-> sel]})
    \cup UNION { IF isField(sel[i]) /\ Len(sel[i].sel) > 0
                 THEN NodesOfValue(IF isNull(id) THEN Null
                                   ELSE Str(id.v \o <<".", sel[i].name>>),
                                   Get(object, resultKeyNameFromField(sel[i])),
                                   sel[i].sel)
                 ELSE {} : i \in 1..Len(sel) }

NodesOfValue(path, value, sel) ==
    IF value.t = "obj" THEN NodesOf(NodeOf(path, value), value, sel)
    ELSE IF value.t = "arr"
    THEN UNION { NodesOfValue(IF isNull(path) THEN Null
                              ELSE Str(path.v \o <<"[", ToString(j - 1), "]">>),
                              value.v[j], sel) : j \in 1..Len(value.v) }
    ELSE {}

\* The write was made with id = null and returned.
WroteWithoutId ==
    /\ glast.w # 0 /\ glast.err = NoError
    /\ isNull(LastGraphWrite.id)
    /\ LastGraphWrite.getDataID = ById

NodeIds(nodes) == {n.id : n \in nodes}

\* C34: writeToGraph with id = null makes and changes no node for the object
\* nor for a descendant without a data id; a descendant with the data id d is
\* written under `(d)` and its descendants without a data id under ids
\* derived from `(d)`.
C34_NullIdWritesNoNode ==
    WroteWithoutId =>
        LET nodes == NodesOf(Null, LastGraphWrite.result, LastGraphWrite.doc)
        IN  /\ \A id \in DOMAIN graph :
                  (id \notin DOMAIN glast.before \/ graph[id] # glast.before[id])
                      => id \in NodeIds(nodes)
            /\ \A id \in DOMAIN glast.before : id \in DOMAIN graph
            /\ \A n \in nodes :
                  /\ n.id \in DOMAIN graph
                  /\ n.id[1] = "("
                  /\ HoldsSelected(Obj(graph[n.id].scalars), n.object, n.sel, TRUE)

\* A write without id has written an object with a data id, found under an
\* object without one, and a descendant of it that has no data id.
C34_Witness ==
    /\ WroteWithoutId
    /\ <<"(", "U1", ")", ".", "friend">> \in DOMAIN graph
    /\ <<"(", "U1", ")", ".", "friend">> \notin DOMAIN glast.before
    /\ <<"(", "U2", ")">> \in DOMAIN graph

\* A write without id has left the graph without a node but `(U2)`, passing
\* an object without data id.
C34_SkippedWitness ==
    /\ WroteWithoutId
    /\ DOMAIN graph = {<<"(", "U2", ")">>}
    /\ Has(LastGraphWrite.result, <<"n">>)

(***************************************************************************)
(* useBaseQuery and useAfterFastRefresh in one function component          *)
(*                                                                         *)
(* hook is the state React keeps for a component that calls useBaseQuery   *)
(* and then useAfterFastRefresh: the refs, the reducer's tick, the         *)
(* cleanups its effects registered, and the QueryData instances made.      *)
(* React renders, commits and runs the passive effects of one update       *)
(* before it handles the next event; a fast refresh renders again with the *)
(* state kept, runs every effect's cleanup and then every effect.          *)
(***************************************************************************)
MaxRefreshes == 2
MaxNewData == 2

NoEvent == [op |-> "none", phase |-> "none", forced |-> 0, calls |-> 0, ref |-> 0]

\* Before the first render; dev is __DEV__, ssr is queryData.ssrInitiated().
Unrendered(dev, ssr) ==
    [phase |-> "none", dev |-> dev, ssr |-> ssr,
     tick |-> 0, dirty |-> FALSE,
     queryDataRef |-> 0, created |-> 0, cleaned |-> {}, cleanup |-> 0,
     maybeFastRefresh |-> FALSE,
     microtasks |-> 0, reported |-> 0, forced |-> 0, late |-> 0,
     didRefresh |-> FALSE, effectCalls |-> 0, refreshes |-> 0,
     ev |-> NoEvent]

\* forceUpdate(): the reducer's dispatch.  React drops the update of a
\* component that is unmounted; `late` counts these requests.
forceUpdate(h) ==
    IF h.phase = "unmounted"
    THEN [h EXCEPT !.forced = @ + 1, !.late = @ + 1]
    ELSE [h EXCEPT !.forced = @ + 1, !.tick = @ + 1, !.dirty = TRUE]

\* The body of useBaseQuery: queryDataRef.current || (queryDataRef.current =
\* new QueryData(...)).  The instances are numbered in the order they are made.
render(h) ==
    IF h.queryDataRef # 0 THEN [h EXCEPT !.dirty = FALSE]
    ELSE [h EXCEPT !.dirty = FALSE, !.queryDataRef = h.created + 1,
                   !.created = @ + 1]

\* onNewData() of the options given to QueryData.
onNewData(h) ==
    IF ~h.ssr THEN [h EXCEPT !.microtasks = @ + 1] ELSE forceUpdate(h)

\* The callback given to Promise.resolve().then.
microtask(h) == IF h.queryDataRef # 0 THEN forceUpdate(h) ELSE h

\* The cleanup of the effect that detects a fast refresh.
maybeFastRefreshCleanup(h) ==
    IF h.dev THEN [h EXCEPT !.maybeFastRefresh = TRUE] ELSE h

\* The effect with the empty dependency list, run by the render that bound
\* queryData; `cleanup` is the instance its returned cleanup holds, 0 when it
\* returned none.
mountEffect(h, queryData) ==
    IF h.dev /\ h.maybeFastRefresh
    THEN [forceUpdate(h) EXCEPT !.maybeFastRefresh = FALSE, !.cleanup = 0]
    ELSE [h EXCEPT !.cleanup = queryData]

\* The cleanup the effect returned, if it returned one.
mountCleanup(h) ==
    IF h.cleanup = 0 THEN h
    ELSE [h EXCEPT !.cleaned = @ \cup {h.cleanup}, !.queryDataRef = 0,
                   !.cleanup = 0]

\* The effect of useAfterFastRefresh that calls effectFn on every run.
afterFastRefreshEffectAlways(h) ==
    IF h.dev THEN [h EXCEPT !.didRefresh = FALSE, !.effectCalls = @ + 1] ELSE h

\* useAfterFastRefresh: the cleanup of its first effect and its second effect.
afterFastRefreshCleanup(h) ==
    IF h.dev THEN [h EXCEPT !.didRefresh = TRUE] ELSE h

afterFastRefreshEffect(h) ==
    IF h.dev /\ h.didRefresh
    THEN [h EXCEPT !.didRefresh = FALSE, !.effectCalls = @ + 1]
    ELSE h

\* The effects and the cleanups of the component, in the order of the hooks.
runEffects(h, queryData) == afterFastRefreshEffect(mountEffect(h, queryData))
runCleanups(h) == afterFastRefreshCleanup(mountCleanup(maybeFastRefreshCleanup(h)))

\* The event op took the component to h.
Handled(op, h) ==
    hook' = [h EXCEPT !.ev = [op |-> op, phase |-> hook.phase,
                              forced |-> hook.forced,
                              calls |-> hook.effectCalls,
                              ref |-> hook.queryDataRef]]

HookInit ==
    /\ store = EmptyCache
    /\ last = [w |-> 0, err |-> NoError, log |-> <<>>, before |-> EmptyCache]
    /\ nwrites = 0
    /\ fieldA = NoField
    /\ fieldB = NoField
    /\ env = NoVars
    /\ keyA = NotEncoded
    /\ keyB = NotEncoded
    /\ graph = EmptyGraph
    /\ glast = NoGraphWrite
    /\ NoClient
    /\ \E dev \in BOOLEAN, ssr \in BOOLEAN : hook = Unrendered(dev, ssr)
    /\ creation = [called |-> FALSE]

nonHookVars == <<writerVars, clientVars, creation>>

\* The first render; on the client the component is mounted and its effects
\* run, on the server no effect runs.
Mount ==
    /\ hook.phase = "none"
    /\ IF hook.ssr
       THEN Handled("mount", [render(hook) EXCEPT !.phase = "server"])
       ELSE Handled("mount", runEffects([render(hook) EXCEPT !.phase = "mounted"],
                                        render(hook).queryDataRef))
    /\ UNCHANGED nonHookVars

\* An ordinary re-render, after forceUpdate or of the parent: no effect with
\* an empty dependency list runs.
Rerender ==
    /\ hook.phase = "mounted"
    /\ Handled("render", render(hook))
    /\ UNCHANGED nonHookVars

\* A fast refresh: the component is rendered with its state kept, then every
\* cleanup runs and then every effect.
FastRefresh ==
    /\ hook.phase = "mounted"
    /\ hook.dev
    /\ hook.refreshes < MaxRefreshes
    /\ Handled("refresh",
               [runEffects(runCleanups(render(hook)), render(hook).queryDataRef)
                   EXCEPT !.refreshes = @ + 1])
    /\ UNCHANGED nonHookVars

\* Instance i, made and not cleaned up, reports new data.
NewData(i) ==
    /\ i \in (1..hook.created) \ hook.cleaned
    /\ hook.reported < MaxNewData
    /\ Handled("newData", [onNewData(hook) EXCEPT !.reported = @ + 1])
    /\ UNCHANGED nonHookVars

\* The oldest queued microtask runs.
Microtask ==
    /\ hook.microtasks > 0
    /\ Handled("microtask", [microtask(hook) EXCEPT !.microtasks = @ - 1])
    /\ UNCHANGED nonHookVars

\* The component is unmounted: the cleanups run.
Unmount ==
    /\ hook.phase = "mounted"
    /\ Handled("unmount", [runCleanups(hook) EXCEPT !.phase = "unmounted"])
    /\ UNCHANGED nonHookVars

HookNext ==
    \/ Mount
    \/ Rerender
    \/ FastRefresh
    \/ \E i \in 1..hook.created : NewData(i)
    \/ Microtask
    \/ Unmount

HookSpec == HookInit /\ [][HookNext]_vars

\* New data was reported on the client: the event was onNewData alone.
ReportedOnClient == hook.ev.op = "newData" /\ ~hook.ssr

\* A queued microtask ran when the component was no longer mounted.
RanAfterUnmount == hook.ev.op = "microtask" /\ hook.ev.phase = "unmounted"

\* C35: on the client onNewData requests no re-render itself, it queues a
\* microtask that does; the microtask requests none when the component was
\* unmounted before it ran.
C35_DeferredRerender ==
    /\ ReportedOnClient =>
          /\ hook.forced = hook.ev.forced
          /\ hook.microtasks > 0
    /\ hook.ev.op = "microtask" /\ hook.ev.phase = "mounted" /\ hook.ev.ref # 0 =>
          hook.forced = hook.ev.forced + 1
    /\ RanAfterUnmount => hook.forced = hook.ev.forced

\* What holds of the microtask: it requests the re-render exactly when
\* queryDataRef.current is set, and the cleanup that clears it was registered
\* by the component's last run of the effect unless that run followed a fast
\* refresh.
C35_DeferredRerenderWhileRefSet ==
    /\ ReportedOnClient =>
          /\ hook.forced = hook.ev.forced
          /\ hook.microtasks > 0
    /\ hook.ev.op = "microtask" =>
          hook.forced = hook.ev.forced + (IF hook.ev.ref # 0 THEN 1 ELSE 0)
    /\ RanAfterUnmount /\ hook.refreshes = 0 => hook.forced = hook.ev.forced

\* New data was reported on the client, the component was unmounted, and the
\* microtask has run.
C35_Witness ==
    /\ RanAfterUnmount
    /\ hook.reported > 0
    /\ hook.refreshes = 0
    /\ hook.forced = hook.ev.forced

\* The microtask that ran after the unmount requested a re-render.
C35_LateWitness == RanAfterUnmount /\ hook.late > 0

\* C36: when the component has been unmounted, cleanup() was called on every
\* QueryData instance useBaseQuery made.
C36_EveryInstanceCleanedUp ==
    hook.phase = "unmounted" => \A i \in 1..hook.created : i \in hook.cleaned

\* What holds: the instance the first render made is cleaned up, and so is
\* every instance when no re-render followed a fast refresh.
C36_FirstInstanceCleanedUp ==
    hook.phase = "unmounted" =>
        /\ 1 \in hook.cleaned
        /\ hook.refreshes = 0 => hook.created = 1

\* The component was unmounted after a fast refresh and the re-render that
\* follows it.
C36_Witness ==
    /\ hook.phase = "unmounted"
    /\ hook.refreshes > 0
    /\ hook.created = 2

\* C38: effectFn is not called on the initial mount, is called once for each
\* fast refresh, and the flag is reset, so that an ordinary re-render calls
\* nothing.
C38_OncePerFastRefresh ==
    /\ hook.phase \in {"mounted", "unmounted"} =>
          hook.effectCalls = hook.refreshes
    /\ hook.phase = "mounted" => ~hook.didRefresh
    /\ hook.ev.op = "mount" => hook.effectCalls = 0
    /\ hook.ev.op = "refresh" => hook.effectCalls = hook.ev.calls + 1
    /\ hook.ev.op = "render" => hook.effectCalls = hook.ev.calls

\* An ordinary re-render followed the second fast refresh.
C38_Witness ==
    /\ hook.ev.op = "render"
    /\ hook.refreshes = 2
    /\ hook.effectCalls = 2

(***************************************************************************)
(* createApolloStore                                                       *)
(*                                                                         *)
(* creation holds the arguments of one call and what the call gave.  redux *)
(* is a dependency: createStore is taken to return a store whose state is  *)
(* what combineReducers makes of the reducer, which returns {} always.     *)
(***************************************************************************)
RootKey(reduxRootKey) ==
    IF isUndefined(reduxRootKey) THEN <<"apollo">> ELSE reduxRootKey.v

\* The enhancers: applyMiddleware(...middlewares) where there is a
\* middleware, then the dev tools extension of the window.
enhancersOf(options) ==
    LET reportCrashes == IF isUndefined(options.reportCrashes) THEN Bool(TRUE)
                         ELSE options.reportCrashes
        middlewares == (IF Truthy(reportCrashes) THEN <<"crashReporter">> ELSE <<>>)
                       \o (IF Truthy(options.logger) THEN <<"logger">> ELSE <<>>)
    IN  (IF Len(middlewares) > 0 THEN <<middlewares>> ELSE <<>>)
        \o (IF options.devTools THEN <<<<"devToolsExtension">>>> ELSE <<>>)

\* initialState && initialState[reduxRootKey] && initialState[reduxRootKey][name]
InitialEntry(options, name) ==
    /\ Truthy(options.initialState)
    /\ Truthy(Get(options.initialState, RootKey(options.reduxRootKey)))
    /\ Truthy(Get(Get(options.initialState, RootKey(options.reduxRootKey)), name))

\* createApolloStore without the check of the mutations.
createApolloStoreQueriesOnly(options) ==
    IF InitialEntry(options, <<"queries">>)
    THEN [err |-> "InitialQueries", store |-> Undefined, enhancers |-> <<>>]
    ELSE [err |-> NoError,
          store |-> Obj(<<Prop(RootKey(options.reduxRootKey), Obj(<<>>))>>),
          enhancers |-> enhancersOf(options)]

createApolloStore(options) ==
    IF InitialEntry(options, <<"queries">>)
    THEN [err |-> "InitialQueries", store |-> Undefined, enhancers |-> <<>>]
    ELSE IF InitialEntry(options, <<"mutations">>)
    THEN [err |-> "InitialMutations", store |-> Undefined, enhancers |-> <<>>]
    ELSE [err |-> NoError,
          store |-> Obj(<<Prop(RootKey(options.reduxRootKey), Obj(<<>>))>>),
          enhancers |-> enhancersOf(options)]

\* The values an entry of the rehydrated state is drawn from; Undefined
\* stands for an entry that is absent.
EntryValues ==
    {Undefined, Null, Num(0), Str(<<>>), Bool(FALSE), Obj(<<>>),
     Obj(<<NP("1", Obj(<<NP("loading", Bool(FALSE))>>))>>)}

\* An object of the entries that are not Undefined.
Entries(queries, mutations, data) ==
    Obj((IF isUndefined(data) THEN <<>> ELSE <<NP("data", data)>>)
        \o (IF isUndefined(queries) THEN <<>> ELSE <<NP("queries", queries)>>)
        \o (IF isUndefined(mutations) THEN <<>> ELSE <<NP("mutations", mutations)>>))

DataValues == {Undefined, Obj(<<>>), Obj(<<NP("ROOT_QUERY", Obj(<<NP("n", Num(1))>>))>>)}

\* The initial states: none, empty ones, a primitive under the root key, and
\* the entries under the key apollo or under another key.
InitialStates ==
    {Undefined, Null, Obj(<<>>), Obj(<<NP("apollo", Num(7))>>),
     Obj(<<NP("apollo", Null)>>)}
    \cup { Obj(<<Prop(key, Entries(q, m, d))>>) :
              key \in {<<"apollo">>, <<"k">>},
              q \in EntryValues, m \in EntryValues, d \in DataValues }

StoreOptions ==
    [reduxRootKey : {Undefined, Str(<<"apollo">>), Str(<<"k">>)},
     initialState : InitialStates,
     reportCrashes : {Undefined, Bool(FALSE)},
     logger : {Undefined, Obj(<<>>)},
     devTools : BOOLEAN]

StoreInit ==
    /\ store = EmptyCache
    /\ last = [w |-> 0, err |-> NoError, log |-> <<>>, before |-> EmptyCache]
    /\ nwrites = 0
    /\ fieldA = NoField
    /\ fieldB = NoField
    /\ env = NoVars
    /\ keyA = NotEncoded
    /\ keyB = NotEncoded
    /\ graph = EmptyGraph
    /\ glast = NoGraphWrite
    /\ NoClient
    /\ hook = [phase |-> "absent"]
    /\ \E options \in StoreOptions :
          creation = [called |-> FALSE, options |-> options]

\* The call of createApolloStore with the options drawn.
CreateStore ==
    /\ ~creation.called
    /\ creation' = [called |-> TRUE, options |-> creation.options,
                    result |-> createApolloStore(creation.options)]
    /\ UNCHANGED <<writerVars, clientVars, hook>>

StoreNext == CreateStore

StoreSpec == StoreInit /\ [][StoreNext]_vars

\* The value of initialState[reduxRootKey][name] as the claim reads it:
\* undefined where there is no initial state or no object under the key.
EntryOf(options, name) ==
    IF options.initialState.t # "obj" THEN Undefined
    ELSE Get(Get(options.initialState, RootKey(options.reduxRootKey)), name)

Rehydrates(options) ==
    Truthy(EntryOf(options, <<"queries">>)) \/ Truthy(EntryOf(options, <<"mutations">>))

\* C37: createApolloStore throws and makes no store when the initial state
\* holds a truthy queries or mutations entry under the root key, and returns a
\* store for every other initial state.
C37_InitialStateOnlyData ==
    creation.called =>
        IF Rehydrates(creation.options)
        THEN /\ creation.result.err # NoError
             /\ isUndefined(creation.result.store)
        ELSE /\ creation.result.err = NoError
             /\ creation.result.store.t = "obj"

\* The call threw for an initial state with data and an empty (truthy)
\* mutations object under a root key that is not the default.
C37_Witness ==
    /\ creation.called
    /\ creation.result.err = "InitialMutations"
    /\ creation.options.reduxRootKey = Str(<<"k">>)
    /\ EntryOf(creation.options, <<"mutations">>) = Obj(<<>>)
    /\ ~isUndefined(EntryOf(creation.options, <<"data">>))

\* The call returned a store for an initial state that holds only data.
C37_DataWitness ==
    /\ creation.called
    /\ creation.result.err = NoError
    /\ ~isUndefined(EntryOf(creation.options, <<"data">>))
    /\ isUndefined(EntryOf(creation.options, <<"queries">>))
    /\ creation.options.initialState.v[1].k = RootKey(creation.options.reduxRootKey)
====
